---- MODULE Spec2Model ----
(***************************************************************************)
(* Model of the weather app's city-name resolution pipeline and of the    *)
(* GET /api/weather route handler (src/unnamed/part_004, the route with   *)
(* Arabic-aware geocoding, and src/lib/arabicNormalize.ts).               *)
(*                                                                         *)
(* JavaScript strings are modelled as sequences of UTF-16 code units, so  *)
(* that normalisation, lower-casing, trimming and substring search are    *)
(* computed the way the code computes them.  An optional field            *)
(* (`population?: number`) is a sequence of length 0 (undefined) or 1.    *)
(***************************************************************************)
EXTENDS Integers, Sequences, FiniteSets, TLC

\* ------------------------------------------------------------------------
\* Bounds of the model
\* ------------------------------------------------------------------------

\* longest candidate batch the filter is explored on
MaxBatch == 3

\* ------------------------------------------------------------------------
\* String literals of the source, as code-unit sequences
\* ------------------------------------------------------------------------

\* 'سلطنة عمان'
StrSultanatOmanAr == <<1587, 1604, 1591, 1606, 1577, 32, 1593, 1605, 1575, 1606>>
\* 'sultanate of oman'
StrSultanateOfOman == <<115, 117, 108, 116, 97, 110, 97, 116, 101, 32, 111, 102, 32, 111, 109, 97, 110>>
\* 'sultanate oman'
StrSultanateOman == <<115, 117, 108, 116, 97, 110, 97, 116, 101, 32, 111, 109, 97, 110>>
\* 'country oman'
StrCountryOman == <<99, 111, 117, 110, 116, 114, 121, 32, 111, 109, 97, 110>>
\* 'عُمان' (ain, damma U+064F, meem, alef, noon)
StrOmanDiacritic == <<1593, 1615, 1605, 1575, 1606>>
\* 'عمان' (ain, meem, alef, noon)
StrAmmanAr == <<1593, 1605, 1575, 1606>>
\* 'amman'
StrAmman == <<97, 109, 109, 97, 110>>
\* 'ammān' (U+0101)
StrAmmanMacron == <<97, 109, 109, 257, 110>>
\* 'ammãn' (U+00E3)
StrAmmanTilde == <<97, 109, 109, 227, 110>>
\* 'oman'
StrOman == <<111, 109, 97, 110>>
\* 'jordan'
StrJordan == <<106, 111, 114, 100, 97, 110>>
\* 'الأردن'
StrJordanAr == <<1575, 1604, 1571, 1585, 1583, 1606>>
\* 'jo'
StrJo == <<106, 111>>
\* 'jor'
StrJor == <<106, 111, 114>>

\* ------------------------------------------------------------------------
\* String primitives (String.prototype.*)
\* ------------------------------------------------------------------------

\* /\s/ : the white-space code units
IsSpace(c) == c \in {9, 10, 11, 12, 13, 32, 160}

\* /[\u0600-\u06FF]/ : a code unit of the Arabic block
IsArabicChar(c) == c >= 1536 /\ c <= 1791

\* /[\u064B-\u065F\u0670]/ : an Arabic diacritic (tashkeel)
IsDiacritic(c) == (c >= 1611 /\ c <= 1631) \/ c = 1648

\* /[\u0600-\u06FF]/.test(s)
HasArabic(s) == \E i \in 1..Len(s) : IsArabicChar(s[i])

\* String.prototype.toLowerCase, one code unit (ASCII, Latin-1, Latin Extended-A pairs)
ToLowerChar(c) ==
    IF c >= 65 /\ c <= 90 THEN c + 32
    ELSE IF c >= 192 /\ c <= 222 /\ c # 215 THEN c + 32
    ELSE IF c >= 256 /\ c <= 302 /\ c % 2 = 0 THEN c + 1
    ELSE c

\* String.prototype.toLowerCase
ToLowerCase(s) == [i \in 1..Len(s) |-> ToLowerChar(s[i])]

\* String.prototype.trim
Trim(s) ==
    LET keep == {i \in 1..Len(s) : ~IsSpace(s[i])}
    IN  IF keep = {} THEN <<>>
        ELSE LET lo == CHOOSE i \in keep : \A j \in keep : i <= j
                 hi == CHOOSE i \in keep : \A j \in keep : i >= j
             IN  SubSeq(s, lo, hi)

\* String.prototype.includes
Includes(s, p) ==
    \E i \in 0..(Len(s) - Len(p)) : SubSeq(s, i + 1, i + Len(p)) = p

\* s.replace(/\s+/g, ' ') : every maximal run of white space becomes one space
CollapseWhitespace(s) ==
    LET keep == {i \in 1..Len(s) : ~IsSpace(s[i]) \/ i = 1 \/ ~IsSpace(s[i - 1])}
        F[i \in 0..Len(s)] ==
            IF i = 0 THEN <<>>
            ELSE IF i \in keep
                 THEN Append(F[i - 1], IF IsSpace(s[i]) THEN 32 ELSE s[i])
                 ELSE F[i - 1]
    IN  F[Len(s)]

\* ------------------------------------------------------------------------
\* src/lib/arabicNormalize.ts
\* ------------------------------------------------------------------------

\* removeDiacritics without the g flag: only the first diacritic is removed
removeFirstDiacritic(text) ==
    LET marks == {i \in 1..Len(text) : IsDiacritic(text[i])}
    IN  IF marks = {} THEN text
        ELSE LET k == CHOOSE i \in marks : \A j \in marks : i <= j
             IN  SubSeq(text, 1, k - 1) \o SubSeq(text, k + 1, Len(text))

\* removeDiacritics: text.replace(/[\u064B-\u065F\u0670]/g, '')
removeDiacritics(text) == SelectSeq(text, LAMBDA c : ~IsDiacritic(c))

\* one letter of normalizeArabicLetters: the chained replaces
NormalizeLetter(c) ==
    CASE c = 1609 -> 1610     \* alif maksura -> ya
      [] c = 1577 -> 1607     \* ta marbuta -> ha
      [] c = 1573 -> 1575     \* alif with hamza below -> alif
      [] c = 1571 -> 1575     \* alif with hamza above -> alif
      [] c = 1570 -> 1575     \* alif maddah -> alif
      [] c = 1572 -> 1608     \* waw with hamza -> waw
      [] c = 1574 -> 1610     \* ya with hamza -> ya
      [] OTHER -> c

\* normalizeArabicLetters
normalizeArabicLetters(text) == [i \in 1..Len(text) |-> NormalizeLetter(text[i])]

\* normalizeArabic leaving the diacritics in place
normalizeArabicKeepingMarks(text) ==
    IF text = <<>> THEN text
    ELSE IF ~HasArabic(text) THEN CollapseWhitespace(Trim(text))
    ELSE CollapseWhitespace(normalizeArabicLetters(Trim(text)))

\* normalizeArabic
normalizeArabic(text) ==
    IF text = <<>> THEN text
    ELSE IF ~HasArabic(text) THEN CollapseWhitespace(Trim(text))
    ELSE CollapseWhitespace(normalizeArabicLetters(removeDiacritics(Trim(text))))

\* normalizeCityName
normalizeCityName(city) ==
    IF city = <<>> THEN <<>>
    ELSE LET normalized == normalizeArabic(city)
         IN  IF ~HasArabic(normalized) THEN Trim(ToLowerCase(normalized))
             ELSE Trim(normalized)

\* ------------------------------------------------------------------------
\* src/unnamed/part_004 : isAmmanCity
\* ------------------------------------------------------------------------

\* omanCountryPatterns
omanCountryPatterns ==
    <<StrSultanatOmanAr, StrSultanateOfOman, StrSultanateOman, StrCountryOman, StrOmanDiacritic>>

\* ammanVariants
ammanVariants == <<StrAmmanAr, StrAmman, StrAmmanMacron, StrAmmanTilde>>

\* the first loop of isAmmanCity: an explicit Oman country reference is found
MatchesOmanPattern(normalized) ==
    \E k \in 1..Len(omanCountryPatterns) :
        Includes(normalized, ToLowerCase(omanCountryPatterns[k]))

\* the second loop of isAmmanCity: an Amman variant is found
MatchesAmmanVariant(normalized) ==
    \E k \in 1..Len(ammanVariants) :
        LET variantLower == ToLowerCase(ammanVariants[k])
        IN  \/ normalized = variantLower
            \/ /\ Includes(normalized, variantLower)
               /\ ~Includes(normalized, StrOman)
               /\ ~Includes(normalized, StrOmanDiacritic)

\* isAmmanCity
isAmmanCity(input) ==
    LET normalized == Trim(ToLowerCase(normalizeCityName(input)))
    IN  IF MatchesOmanPattern(normalized) THEN FALSE
        ELSE MatchesAmmanVariant(normalized)

\* ------------------------------------------------------------------------
\* src/unnamed/part_004 : filterGeocodingResults
\* ------------------------------------------------------------------------

\* x?.toLowerCase() || '' for an optional string field
LowerOrEmpty(opt) == IF opt = <<>> THEN <<>> ELSE ToLowerCase(opt[1])

\* isJordan with the colliding country let through as well
isJordanOrOman(result) ==
    LET resultCountry == ToLowerCase(result.country)
        resultCountryCode == LowerOrEmpty(result.country_code)
    IN  \/ resultCountry = StrJordan
        \/ resultCountry = StrJordanAr
        \/ resultCountry = StrOman
        \/ resultCountryCode = StrJo
        \/ resultCountryCode = StrJor

\* isJordan, lines 242-246
isJordan(result) ==
    LET resultCountry == ToLowerCase(result.country)
        resultCountryCode == LowerOrEmpty(result.country_code)
    IN  \/ resultCountry = StrJordan
        \/ resultCountry = StrJordanAr
        \/ resultCountryCode = StrJo
        \/ resultCountryCode = StrJor

\* nameMatchesAmman, lines 253-257
nameMatchesAmman(result) ==
    LET resultName == ToLowerCase(result.name)
    IN  \/ Includes(resultName, StrAmman)
        \/ resultName = StrAmmanAr
        \/ Includes(resultName, StrAmmanAr)
        \/ result.feature_code = <<"PPLC">>

\* isCapital, lines 261 and 291
isCapital(result) ==
    result.feature_code = <<"PPLC">> \/ result.feature_code = <<"PPLA">>

\* `result.population && result.population > n`
PopulationAbove(result, n) ==
    result.population # <<>> /\ result.population[1] # 0 /\ result.population[1] > n

\* the acceptance test of the Amman loop, lines 261-266
AmmanAccepts(result) ==
    LET hasHighPopulation == PopulationAbove(result, 100000)
    IN  isCapital(result) \/ hasHighPopulation \/ PopulationAbove(result, 50000)

\* the body of the Amman loop accepts this result
AmmanLoopAccepts(result) ==
    isJordan(result) /\ nameMatchesAmman(result) /\ AmmanAccepts(result)

\* the Amman branch, lines 236-272: the first result the loop accepts, or null
FilterAmman(results) ==
    LET ok == {i \in 1..Len(results) : AmmanLoopAccepts(results[i])}
    IN  IF ok = {} THEN <<>>
        ELSE <<results[CHOOSE i \in ok : \A j \in ok : i <= j]>>

\* `x.population || 0`
PopOrZero(result) == IF result.population = <<>> THEN 0 ELSE result.population[1]

\* the comparator with the population order reversed (popA - popB)
CompareResultsAscending(a, b) ==
    IF a.feature_code = <<"PPLC">> /\ b.feature_code # <<"PPLC">> THEN 0 - 1
    ELSE IF b.feature_code = <<"PPLC">> /\ a.feature_code # <<"PPLC">> THEN 1
    ELSE PopOrZero(a) - PopOrZero(b)

\* the sort comparator, lines 277-286
CompareResults(a, b) ==
    IF a.feature_code = <<"PPLC">> /\ b.feature_code # <<"PPLC">> THEN 0 - 1
    ELSE IF b.feature_code = <<"PPLC">> /\ a.feature_code # <<"PPLC">> THEN 1
    ELSE PopOrZero(b) - PopOrZero(a)

\* Array.prototype.sort is stable: x goes after every element that does not sort after it
InsertSorted(sorted, x) ==
    LET before == {i \in 1..Len(sorted) : CompareResults(sorted[i], x) <= 0}
        k == IF before = {} THEN 0 ELSE CHOOSE i \in before : \A j \in before : i >= j
    IN  SubSeq(sorted, 1, k) \o <<x>> \o SubSeq(sorted, k + 1, Len(sorted))

\* [...results].sort(comparator)
SortedResults(results) ==
    LET F[i \in 0..Len(results)] ==
            IF i = 0 THEN <<>> ELSE InsertSorted(F[i - 1], results[i])
    IN  F[Len(results)]

\* the general branch returning a rewritten copy of the best result (name lower-cased)
FilterGeneralRewriting(results) ==
    LET bestResult == SortedResults(results)[1]
        hasReasonablePopulation == PopulationAbove(bestResult, 10000)
    IN  IF ~bestResult.nullish /\ (isCapital(bestResult) \/ hasReasonablePopulation)
        THEN <<[bestResult EXCEPT !.name = ToLowerCase(@)]>>
        ELSE <<>>

\* the general branch, lines 277-300
FilterGeneral(results) ==
    LET bestResult == SortedResults(results)[1]
        hasReasonablePopulation == PopulationAbove(bestResult, 10000)
    IN  IF ~bestResult.nullish /\ (isCapital(bestResult) \/ hasReasonablePopulation)
        THEN <<bestResult>>
        ELSE <<>>

\* filterGeocodingResults on a non-empty array, given the value of
\* isAmmanCity(cityName) (line 235): <<>> is null, <<r>> is the result r
FilterBranch(results, guarded) ==
    IF guarded THEN FilterAmman(results) ELSE FilterGeneral(results)

\* filterGeocodingResults: <<>> is null, <<r>> is the result r
filterGeocodingResults(results, cityName) ==
    IF results = <<>> THEN <<>>
    ELSE FilterBranch(results, isAmmanCity(cityName))

\* ------------------------------------------------------------------------
\* src/unnamed/part_004 : geocodeCity, the query ladder
\* ------------------------------------------------------------------------

\* 'في', 'من', 'إلى', 'على' : the filler words of the cleanup regexes
FillerWords == {<<1601, 1610>>, <<1605, 1606>>, <<1573, 1604, 1609>>, <<1593, 1604, 1609>>}

\* s.split(/[،,]/)[0] : the text before the first Arabic or ASCII comma
FirstSegment(s) ==
    LET commas == {i \in 1..Len(s) : s[i] \in {1548, 44}}
    IN  IF commas = {} THEN s
        ELSE SubSeq(s, 1, (CHOOSE i \in commas : \A j \in commas : i <= j) - 1)

\* the number of white-space code units of s from position i on, up to the first other one
SpaceRunFrom(s, i) ==
    LET stop == {j \in i..Len(s) : ~IsSpace(s[j])}
    IN  IF stop = {} THEN Len(s) - i + 1
        ELSE (CHOOSE j \in stop : \A k \in stop : j <= k) - i

\* the number of white-space code units of s ending at position i, backwards
SpaceRunBefore(s, i) ==
    LET stop == {j \in 1..i : ~IsSpace(s[j])}
    IN  IF stop = {} THEN i
        ELSE i - (CHOOSE j \in stop : \A k \in stop : j >= k)

\* s.replace(/^(filler)\s+/g, '')
StripLeadingFiller(s) ==
    LET hit == {w \in FillerWords :
                   /\ Len(s) > Len(w)
                   /\ SubSeq(s, 1, Len(w)) = w
                   /\ IsSpace(s[Len(w) + 1])}
    IN  IF hit = {} THEN s
        ELSE LET w == CHOOSE x \in hit : TRUE
             IN  SubSeq(s, Len(w) + SpaceRunFrom(s, Len(w) + 1) + 1, Len(s))

\* s.replace(/\s+(filler)$/g, '')
StripTrailingFiller(s) ==
    LET hit == {w \in FillerWords :
                   /\ Len(s) > Len(w)
                   /\ SubSeq(s, Len(s) - Len(w) + 1, Len(s)) = w
                   /\ IsSpace(s[Len(s) - Len(w)])}
    IN  IF hit = {} THEN s
        ELSE LET w == CHOOSE x \in hit : TRUE
             IN  SubSeq(s, 1, Len(s) - Len(w) - SpaceRunBefore(s, Len(s) - Len(w)))

\* trimmedCity, line 304
TrimmedCity(city) == Trim(city)

\* searchCity, lines 311-312
SearchCity(city) ==
    LET cityOnly == Trim(FirstSegment(TrimmedCity(city)))
    IN  IF cityOnly # <<>> THEN cityOnly ELSE TrimmedCity(city)

\* normalizedInput, line 318
NormalizedInput(city) == normalizeCityName(SearchCity(city))

\* cleanedArabic, lines 366-369
CleanedArabic(city) == Trim(StripTrailingFiller(StripLeadingFiller(SearchCity(city))))

\* the locals geocodeCity computes from its argument, lines 304-318 and 366-369
GeocodeLocals(city) ==
    [trimmedCity |-> TrimmedCity(city),
     searchCity |-> SearchCity(city),
     hasArabic |-> HasArabic(SearchCity(city)),
     normalizedInput |-> NormalizedInput(city),
     cleanedArabic |-> CleanedArabic(city)]

\* the normalized-input strategies never skipped
NormalizationChangedAlways(l) == l.normalizedInput = l.normalizedInput

\* the test guarding the normalized-input strategies, lines 335, 355 and 399
NormalizationChanged(l) ==
    /\ l.normalizedInput # l.searchCity
    /\ l.normalizedInput # ToLowerCase(l.searchCity)

\* the strategies of geocodeCity in program order: 1-6 for Arabic input
\* (lines 325, 336, 346, 356, 372, 380), 7-8 otherwise (lines 390, 400)
Strategies == 1..8

\* the ladder without the normalized-input fallback for non-Arabic input
StrategyAppliesWithoutFallback(k, l) ==
    CASE k \in {1, 3} -> l.hasArabic
      [] k \in {2, 4} -> l.hasArabic /\ NormalizationChanged(l)
      [] k \in {5, 6} -> /\ l.hasArabic
                         /\ l.cleanedArabic # <<>>
                         /\ l.cleanedArabic # l.searchCity
      [] k = 7 -> ~l.hasArabic
      [] k = 8 -> FALSE

\* the ladder without the `else` of line 388: the strategies for other input
\* follow the strategies for Arabic input
StrategyAppliesFallingThrough(k, l) ==
    CASE k \in {1, 3} -> l.hasArabic
      [] k \in {2, 4} -> l.hasArabic /\ NormalizationChanged(l)
      [] k \in {5, 6} -> /\ l.hasArabic
                         /\ l.cleanedArabic # <<>>
                         /\ l.cleanedArabic # l.searchCity
      [] k = 7 -> TRUE
      [] k = 8 -> NormalizationChanged(l)

\* the condition under which geocodeCity, with locals l, reaches the call of strategy k
StrategyApplies(k, l) ==
    CASE k \in {1, 3} -> l.hasArabic
      [] k \in {2, 4} -> l.hasArabic /\ NormalizationChanged(l)
      [] k \in {5, 6} -> /\ l.hasArabic
                         /\ l.cleanedArabic # <<>>
                         /\ l.cleanedArabic # l.searchCity
      [] k = 7 -> ~l.hasArabic
      [] k = 8 -> ~l.hasArabic /\ NormalizationChanged(l)

\* the calls of the ladder asking in English before Arabic
StrategyQueryEnglishFirst(k, l) ==
    [query |-> CASE k \in {1, 3, 7} -> l.searchCity
                 [] k \in {2, 4, 8} -> l.normalizedInput
                 [] k \in {5, 6} -> l.cleanedArabic,
     language |-> IF k \in {3, 4, 5} THEN "ar" ELSE "en"]

\* the (searchQuery, language) arguments of the call of strategy k
StrategyQuery(k, l) ==
    [query |-> CASE k \in {1, 3, 7} -> l.searchCity
                 [] k \in {2, 4, 8} -> l.normalizedInput
                 [] k \in {5, 6} -> l.cleanedArabic,
     language |-> IF k \in {1, 2, 5} THEN "ar" ELSE "en"]

\* the cityName argument geocodeCity gives the filter after the call of strategy k
\* (line 328 passes trimmedCity, every other call site passes searchCity)
FilterArg(k, l) == IF k = 1 THEN l.trimmedCity ELSE l.searchCity

\* the strategies geocodeCity still reaches after strategy k was not accepted
LaterStrategies(k, l) == {j \in Strategies : j > k /\ StrategyApplies(j, l)}

\* the ladder jumping to the last strategy it reaches instead of the next one
NextStrategySkipping(k, l) ==
    IF LaterStrategies(k, l) = {} THEN 0
    ELSE CHOOSE j \in LaterStrategies(k, l) : \A i \in LaterStrategies(k, l) : j >= i

\* the next strategy geocodeCity reaches after strategy k (k = 0: at the start); 0 if none
NextStrategy(k, l) ==
    IF LaterStrategies(k, l) = {} THEN 0
    ELSE CHOOSE j \in LaterStrategies(k, l) : \A i \in LaterStrategies(k, l) : j <= i

\* `if (filtered) return filtered`
Accepted(f) == f # <<>>

\* the outcomes of one fetch of the geocoding service
AnswerKinds == {"network_error", "not_ok", "invalid_json", "ok"}

\* geocodeCityWithFallback: the value returned for one answer (<<>> is null)
geocodeCityWithFallback(answer) ==
    IF answer.kind = "ok" /\ Len(answer.results) > 0 THEN answer.results ELSE <<>>

\* a null entry is dereferenced, given the value of isAmmanCity(cityName):
\* `result.country` in the Amman loop (line 237) before any result was accepted,
\* or `a.feature_code` in the comparator (line 279)
FilterThrows(batch, guarded) ==
    IF guarded
    THEN \E i \in 1..Len(batch) :
            /\ batch[i].nullish
            /\ \A j \in 1..(i - 1) : ~AmmanLoopAccepts(batch[j])
    ELSE Len(batch) >= 2 /\ \E i \in 1..Len(batch) : batch[i].nullish

\* ------------------------------------------------------------------------
\* Candidate records (GeocodingResult['results'][number]) and inputs
\* ------------------------------------------------------------------------

\* one entry of `results`; nullish marks a null entry of a malformed payload
Cand(name, country, code, lat, lon, pop, fc) ==
    [nullish |-> FALSE, name |-> name, country |-> country, country_code |-> code,
     latitude |-> lat, longitude |-> lon, population |-> pop, feature_code |-> fc]

NameAmman == <<65, 109, 109, 97, 110>>
NameAmmanMacron == <<65, 109, 109, 257, 110>>
NameMuscat == <<77, 117, 115, 99, 97, 116>>
NameParis == <<80, 97, 114, 105, 115>>
NameLyon == <<76, 121, 111, 110>>
NameZarqa == <<90, 97, 114, 113, 97>>
CountryJordan == <<74, 111, 114, 100, 97, 110>>
CountryJordanUpper == <<74, 79, 82, 68, 65, 78>>
CountryOman == <<79, 109, 97, 110>>
CountryFrance == <<70, 114, 97, 110, 99, 101>>
CodeJO == <<74, 79>>
CodeJOR == <<74, 79, 82>>
CodeOM == <<79, 77>>
CodeFR == <<70, 82>>

\* the candidate records the geocoding service answers with
CandAmmanJordan == Cand(NameAmman, CountryJordan, <<CodeJO>>, 3195, 3593, <<1200000>>, <<"PPLC">>)
CandOmanAr == Cand(StrAmmanAr, CountryOman, <<CodeOM>>, 2147, 5592, <<2000000>>, <<"PPLA">>)
CandAmmanMacron == Cand(NameAmmanMacron, CountryJordan, <<CodeJO>>, 3196, 3594, <<1200000>>, <<"PPLA">>)
CandMuscat == Cand(NameMuscat, CountryOman, <<CodeOM>>, 2358, 5840, <<5000>>, <<"PPLA">>)
CandParis == Cand(NameParis, CountryFrance, <<CodeFR>>, 4885, 235, <<2000000>>, <<"PPL">>)
CandLyonSmall == Cand(NameLyon, CountryFrance, <<CodeFR>>, 4576, 485, <<5000>>, <<"PPL">>)

Candidates ==
    { CandAmmanJordan, CandOmanAr, CandAmmanMacron, CandMuscat, CandParis, CandLyonSmall,
      Cand(NameAmman, CountryJordanUpper, <<>>, 3197, 3595, <<50000>>, <<"PPL">>),
      Cand(StrAmmanAr, StrJordanAr, <<>>, 3198, 3596, <<50001>>, <<"PPL">>),
      Cand(NameLyon, CountryFrance, <<CodeFR>>, 4575, 484, <<80000>>, <<>>),
      Cand(NameParis, CountryFrance, <<CodeFR>>, 4886, 236, <<10000>>, <<"PPL">>),
      Cand(NameLyon, CountryFrance, <<>>, 4577, 486, <<10001>>, <<"PPL">>),
      Cand(NameZarqa, CountryOman, <<CodeJOR>>, 3206, 3608, <<>>, <<"PPLC">>),
      Cand(NameZarqa, CountryJordan, <<CodeJO>>, 3207, 3609, <<>>, <<"PPL">>) }

\* a null entry of a malformed `results` array (the payload is not validated)
NullEntry ==
    [nullish |-> TRUE, name |-> <<>>, country |-> <<>>, country_code |-> <<>>,
     latitude |-> 0, longitude |-> 0, population |-> <<>>, feature_code |-> <<>>]

\* every batch of at most MaxBatch candidates, in every order
Batches == UNION {[1..n -> Candidates] : n \in 0..MaxBatch}

\* 'Tokyo'
InTokyo == <<84, 111, 107, 121, 111>>
\* 'PARIS'
InParisUpper == <<80, 65, 82, 73, 83>>
\* 'Amman, Jordan'
InAmmanJordan == <<65, 109, 109, 97, 110, 44, 32, 74, 111, 114, 100, 97, 110>>
\* 'Sultanate of Oman'
InSultanateOfOman == <<83, 117, 108, 116, 97, 110, 97, 116, 101, 32, 111, 102, 32, 79, 109, 97, 110>>
\* 'Oman'
InOman == <<79, 109, 97, 110>>

\* the cityName arguments the filter is explored on
FilterInputs ==
    { StrAmman, InAmmanJordan, StrAmmanAr, StrAmmanMacron, StrOmanDiacritic,
      StrSultanatOmanAr, InSultanateOfOman, InOman, InTokyo, InParisUpper }

\* ------------------------------------------------------------------------
\* Inputs of the route handler and answers of the external services
\* ------------------------------------------------------------------------

\* 'في عمان'
InFiAmman == <<1601, 1610, 32, 1593, 1605, 1575, 1606>>
\* 'في  مكّة' (two spaces, shadda)
InFiMakkah == <<1601, 1610, 32, 32, 1605, 1603, 1617, 1577>>
\* 'New  York' (two spaces)
InNewYork == <<78, 101, 119, 32, 32, 89, 111, 114, 107>>
\* 'عمان، Oman'
InAmmanArOman == <<1593, 1605, 1575, 1606, 1548, 32, 79, 109, 97, 110>>
\* '  '
InBlank == <<32, 32>>

\* the values of the `city` query parameter (non-empty strings)
CityInputs ==
    { InTokyo, InAmmanJordan, StrAmmanAr, StrOmanDiacritic, InFiAmman, InFiMakkah,
      InNewYork, InAmmanArOman, InBlank }

\* the `results` arrays the geocoding service answers with
ServiceBatches ==
    { <<>>,
      <<CandAmmanJordan>>,
      <<CandOmanAr, CandAmmanJordan>>,
      <<CandOmanAr>>,
      <<CandLyonSmall>>,
      <<CandParis>>,
      <<NullEntry, NullEntry>> }

\* the outcomes of one geocoding fetch
GeocodeAnswers ==
    {[kind |-> k, results |-> <<>>] : k \in AnswerKinds \ {"ok"}}
        \cup {[kind |-> "ok", results |-> b] : b \in ServiceBatches}

\* the outcomes of one forecast fetch: `complete` says current and daily are present
ForecastAnswers ==
    { [kind |-> "network_error", complete |-> FALSE],
      [kind |-> "not_ok", complete |-> FALSE],
      [kind |-> "ok", complete |-> FALSE],
      [kind |-> "ok", complete |-> TRUE] }

\* 'Unknown'
StrUnknown == <<85, 110, 107, 110, 111, 119, 110>>

\* the outcomes of one reverse-geocoding fetch: `address` is <<>> or <<[name, country]>>
ReverseAnswers ==
    { [kind |-> "network_error", address |-> <<>>],
      [kind |-> "not_ok", address |-> <<>>],
      [kind |-> "ok", address |-> <<>>],
      [kind |-> "ok", address |-> <<[name |-> NameAmman, country |-> CountryJordan]>>] }

\* reverseGeocode, lines 508-537: the value returned for one outcome of its fetch
\* (<<>> is null)
reverseGeocode(a) ==
    IF a.kind = "ok" /\ a.address # <<>> THEN a.address ELSE <<>>

\* the names GET takes when reverseGeocode returned nothing are empty
PlaceNamesBlank(geocodeResult) ==
    IF geocodeResult = <<>> THEN [name |-> <<>>, country |-> <<>>]
    ELSE [name |-> geocodeResult[1].name, country |-> geocodeResult[1].country]

\* GET, lines 575-583: cityName and countryName after reverseGeocode
PlaceNames(geocodeResult) ==
    IF geocodeResult = <<>> THEN [name |-> StrUnknown, country |-> StrUnknown]
    ELSE [name |-> geocodeResult[1].name, country |-> geocodeResult[1].country]

\* the lat / lon query parameters after parseFloat, in units of 0.00001 degree;
\* numeric is FALSE when parseFloat gives NaN
CoordInputs ==
    { [numeric |-> TRUE, lat |-> 3195391, lon |-> 3593002],
      [numeric |-> TRUE, lat |-> 3195393, lon |-> 3593004],
      [numeric |-> FALSE, lat |-> 0, lon |-> 0] }

\* ------------------------------------------------------------------------
\* src/unnamed/part_004 : the cache
\* ------------------------------------------------------------------------

\* CACHE_TTL, in milliseconds
CACHE_TTL == 600000

\* the clock advances in steps of one TTL: an entry is seen at age 0, at age
\* CACHE_TTL (the last age served) and beyond
TickStep == CACHE_TTL

\* the number of clock steps explored
MaxTicks == 2

\* the number of requests explored
MaxRequests == 2

\* normalizeCity
normalizeCity(city) == normalizeCityName(city)

\* getCacheKey
getCacheKey(city) == normalizeCity(city)

\* cache.get(key): <<>> or <<entry>>
CacheGet(c, key) ==
    LET hit == {e \in c : e.key = key}
    IN  IF hit = {} THEN <<>> ELSE <<CHOOSE e \in hit : TRUE>>

\* getCachedData while the entry is not older than twice the TTL
getCachedDataLenient(c, key, t) ==
    LET entry == CacheGet(c, key)
    IN  IF entry = <<>> THEN <<>>
        ELSE IF t - entry[1].timestamp > 2 * CACHE_TTL THEN <<>>
        ELSE <<entry[1].data>>

\* getCachedData that returns no entry
getCachedDataNever(c, key, t) == <<>>

\* getCachedData, given key = getCacheKey(city): the value returned (<<>> is null)
getCachedData(c, key, t) ==
    LET entry == CacheGet(c, key)
    IN  IF entry = <<>> THEN <<>>
        ELSE IF t - entry[1].timestamp > CACHE_TTL THEN <<>>
        ELSE <<entry[1].data>>

\* getCachedData that deletes every expired entry it finds in the cache
CacheAfterGetPurging(c, key, t) ==
    {e \in c : t - e.timestamp <= CACHE_TTL}

\* getCachedData, given key = getCacheKey(city): the cache it leaves (an expired
\* entry is deleted)
CacheAfterGet(c, key, t) ==
    LET entry == CacheGet(c, key)
    IN  IF entry # <<>> /\ t - entry[1].timestamp > CACHE_TTL THEN c \ {entry[1]}
        ELSE c

\* what one call of getCachedData, given key = getCacheKey(city), met: no entry
\* ("miss"), an entry it returned ("hit") or an entry it did not return ("expired"),
\* with the age and the data of that entry
LookupOf(c, key, t) ==
    LET entry == CacheGet(c, key)
    IN  IF entry = <<>> THEN [outcome |-> "miss", age |-> 0, data |-> <<>>]
        ELSE [outcome |-> IF getCachedData(c, key, t) = <<>> THEN "expired" ELSE "hit",
              age |-> t - entry[1].timestamp,
              data |-> <<entry[1].data>>]

\* setCachedData, given key = getCacheKey(city): the cache it leaves
setCachedData(c, key, data, t) ==
    {e \in c : e.key # key} \cup {[key |-> key, data |-> data, timestamp |-> t]}

\* the decimal digits of the integer part of a coordinate (at most three digits)
Digits(n) ==
    IF n < 10 THEN <<48 + n>>
    ELSE IF n < 100 THEN <<48 + (n \div 10), 48 + (n % 10)>>
    ELSE <<48 + (n \div 100), 48 + ((n \div 10) % 10), 48 + (n % 10)>>

\* Number.prototype.toFixed(4) of a value given in units of 0.00001
ToFixed4(v) ==
    LET a == IF v < 0 THEN 0 - v ELSE v
        r == (a + 5) \div 10
        frac == r % 10000
    IN  (IF v < 0 THEN <<45>> ELSE <<>>)
            \o Digits(r \div 10000) \o <<46>>
            \o <<48 + (frac \div 1000), 48 + ((frac \div 100) % 10),
                 48 + ((frac \div 10) % 10), 48 + (frac % 10)>>

\* `lat:${latitude.toFixed(4)},lon:${longitude.toFixed(4)}`
CoordCacheKey(lat, lon) ==
    <<108, 97, 116, 58>> \o ToFixed4(lat) \o <<44, 108, 111, 110, 58>> \o ToFixed4(lon)

\* shapeWeatherResponse: the response body built from the location and the forecast
shapeWeatherResponse(name, country, lat, lon) ==
    [city |-> name, country |-> country, latitude |-> lat, longitude |-> lon]

\* ------------------------------------------------------------------------
\* src/unnamed/part_004 : the control flow of geocodeCity for one city parameter
\* ------------------------------------------------------------------------

\* the fetches geocodeCity(city) makes while nothing is accepted, in order, each
\* with the value of isAmmanCity in the filter call that follows it
GeocodePlan(city) ==
    IF TrimmedCity(city) = <<>> THEN <<>>
    ELSE
    LET l == GeocodeLocals(city)
        guardTrimmed == isAmmanCity(l.trimmedCity)
        guardSearch == isAmmanCity(l.searchCity)
        PlanFrom[k \in 0..8] ==
            LET n == NextStrategy(k, l)
            IN  IF n = 0 THEN <<>>
                ELSE <<[strategy |-> n,
                        call |-> StrategyQuery(n, l),
                        guarded |-> IF FilterArg(n, l) = l.trimmedCity
                                    THEN guardTrimmed ELSE guardSearch]>> \o PlanFrom[n]
    IN  PlanFrom[0]

\* the fetches issued with the next one started although the batch was accepted
CallsAfterPrefetching(issued, steps, f) ==
    IF Len(issued) = Len(steps) THEN issued
    ELSE Append(issued, steps[Len(issued) + 1].call)

\* the fetches issued once the filter has returned f for the awaited one: geocodeCity
\* returns on acceptance (`if (filtered) return filtered`, line 329 and its copies)
\* and otherwise goes on to the next fetch it reaches, if any
CallsAfter(issued, steps, f) ==
    IF Accepted(f) \/ Len(issued) = Len(steps) THEN issued
    ELSE Append(issued, steps[Len(issued) + 1].call)

\* ------------------------------------------------------------------------
\* src/unnamed/part_005 : geocodeCityName, the resolver on the client
\* ------------------------------------------------------------------------

\* `languages`, line 317
ClientLanguages(hasArabic) == IF hasArabic THEN <<"ar", "en">> ELSE <<"en">>

\* `queries` for one language, lines 320-322
ClientQueries(language, searchQuery, normalized) ==
    IF language = "ar" /\ normalized # searchQuery
    THEN <<searchQuery, normalized>>
    ELSE <<IF normalized # searchQuery THEN normalized ELSE searchQuery, searchQuery>>

\* the (query, language) pairs geocodeCityName(cityInput) fetches, in order, when
\* every lookup is empty or fails (both loops run to their end, lines 319-351)
geocodeCityName(cityInput) ==
    IF Trim(cityInput) = <<>> THEN <<>>
    ELSE
    LET searchQuery == SearchCity(cityInput)
        normalized == normalizeCityName(searchQuery)
        languages == ClientLanguages(HasArabic(searchQuery))
        PairsOf(language) ==
            LET queries == ClientQueries(language, searchQuery, normalized)
            IN  [i \in 1..Len(queries) |-> [query |-> queries[i], language |-> language]]
    IN  IF Len(languages) = 2 THEN PairsOf(languages[1]) \o PairsOf(languages[2])
        ELSE PairsOf(languages[1])

\* ------------------------------------------------------------------------
\* Input texts of normalizeCityName and geocodeCity
\* ------------------------------------------------------------------------

\* the length up to which every string over TextAlphabet is explored
MaxTextLen == 3

\* space, comma, 'A', 'a', Arabic comma, ta marbuta, ain, damma
TextAlphabet == {32, 44, 65, 97, 1548, 1577, 1593, 1615}

\* every string over TextAlphabet of length at most MaxTextLen
ShortTexts == UNION {[1..n -> TextAlphabet] : n \in 0..MaxTextLen}

\* what precedes the city name: nothing, spaces, a filler word and white space
TextPrefixes ==
    { <<>>, <<32, 32>>, <<1601, 1610, 32>>, <<1605, 1606, 32, 32>>,
      <<1573, 1604, 1609, 32>>, <<1593, 1604, 1609, 9>> }

\* the city name: nothing, 'عمان', 'عُمان', 'مكّة', 'Amman', 'New  York', 'AMMĀN',
\* 'قۡم' (with the Quranic mark U+06E1), the filler word 'في'
TextCores ==
    { <<>>, StrAmmanAr, StrOmanDiacritic, <<1605, 1603, 1617, 1577>>,
      <<65, 109, 109, 97, 110>>, InNewYork, <<65, 77, 77, 256, 78>>,
      <<1602, 1761, 1605>>, <<1601, 1610>> }

\* what follows the city name: nothing, a space, ' في', ', Jordan', '، الأردن', '، Oman'
TextSuffixes ==
    { <<>>, <<32>>, <<32, 1601, 1610>>, <<44, 32>> \o CountryJordan,
      <<1548, 32>> \o StrJordanAr, <<1548, 32>> \o CountryOman }

\* the strings normalizeCityName and geocodeCity are explored on
Texts ==
    ShortTexts \cup {a \o b \o c : a \in TextPrefixes, b \in TextCores, c \in TextSuffixes}

\* ------------------------------------------------------------------------
\* State
\* ------------------------------------------------------------------------

VARIABLES
    cityName,      \* filterGeocodingResults on its own: the cityName argument
    results,       \* filterGeocodingResults on its own: the results argument
    filtered,      \* filterGeocodingResults on its own: the value returned (<<>> is null)
    filterPc,      \* "idle", "call" (about to run), "returned"
    request,       \* GET: the query parameters of the request being served
    pc,            \* GET: "idle", "geocoding", "reverse", "forecast", "responded"
    cacheKey,      \* GET: cacheKey
    lookup,        \* GET: what its call of getCachedData met (outcome "none": not called)
    plan,          \* geocodeCity: its fetches while nothing is accepted, in order
    strategy,      \* geocodeCity: the strategy whose call is awaited (0: none)
    calls,         \* geocodeCity: the (query, language) pairs fetched, in order
    rejected,      \* geocodeCity: the number of answers received and not accepted
    sawFailure,    \* geocodeCity: some call so far failed
    allEmpty,      \* geocodeCity: every answer so far was an empty batch
    lastResults,   \* geocodeCity: `results` after the last answer (<<>> is null)
    reverseFetched,  \* reverseGeocode: the outcome of its fetch, once it has arrived
    forecastFetched, \* getForecast: the outcome of its fetch, once it has arrived
    geoResult,     \* geocodeCity: the value returned (<<>> is null or not returned yet)
    geoThrew,      \* geocodeCity: an exception left it
    located,       \* GET: <<>> or <<[name, country, latitude, longitude]>>
    forecastCalls, \* GET: the number of forecast fetches of this request
    reverseCalls,  \* GET: the number of reverse-geocoding fetches of this request
    response,      \* GET: the response sent (status 0: none yet)
    cache,         \* the module-level cache Map, as a set of [key, data, timestamp]
    now,           \* Date.now()
    served,        \* the number of requests started
    text,          \* normalizeCityName / geocodeCity on their own: the argument
    textOut,       \* <<>> or <<[normalized, renormalized, plan]>> computed from text
    textPc,        \* "idle", "call" (about to run), "returned"
    summaryIn,     \* getSummaryText / getSummaryIcon on their own: <<>> or <<[data, unit]>>
    summaryOut,    \* <<>> or <<[text, icon]>> computed from summaryIn
    runInput,      \* geocodeCity run twice: the city parameter of both runs
    runNo,         \* the number of runs started
    runPc,         \* "idle", "awaiting" (a fetch is awaited), "done"
    runPlan,       \* the fetches the current run makes while nothing is accepted
    runCalls,      \* the fetches the current run has issued, in order
    runResult,     \* what the current run returned
    answered,      \* the geocoding service: the answer it gave to each call so far
    firstRun,      \* <<>> or <<[calls, result]>> of the first run, once it is over
    pageState,     \* page.tsx: state
    weatherData,   \* page.tsx: weatherData (<<>> is null)
    errorMessage,  \* page.tsx: errorMessage
    recentSearches,    \* page.tsx: recentSearches
    lastFetchedCoords, \* page.tsx: lastFetchedCoords.current (<<>> is null)
    position,      \* useGeolocation: latitude and longitude (<<>> is null)
    inflight,      \* the fetches of the page that have not been answered
    skipped,       \* the calls of fetchWeatherByCity that returned at once
    geoLoading,    \* useGeolocation: loading
    limit,         \* the number of fetches the page gets to have in flight at once
    burst          \* the fetches started since the page had none in flight, in the
                   \* order of their start, each with its answer once it has one;
                   \* empty again when the last of them is answered

filterVars == <<cityName, results, filtered, filterPc>>

requestVars ==
    <<request, pc, cacheKey, lookup, plan, strategy, calls, rejected, sawFailure, allEmpty, lastResults,
     reverseFetched, forecastFetched,
      geoResult, geoThrew, located, forecastCalls, reverseCalls, response>>

serverVars == <<requestVars, cache, now, served>>

textVars == <<text, textOut, textPc, summaryIn, summaryOut>>
repeatVars == <<runInput, runNo, runPc, runPlan, runCalls, runResult, answered, firstRun>>

\* everything the route handler does not touch
pageVars ==
    <<pageState, weatherData, errorMessage, recentSearches, lastFetchedCoords, position,
      inflight, skipped, geoLoading, limit, burst>>

\* what an action of the route handler leaves alone
outsideServer == <<filterVars, textVars, repeatVars, pageVars>>

vars == <<filterVars, serverVars, textVars, repeatVars, pageVars>>

\* no request, no response
NoRequest == [kind |-> "none", city |-> <<>>, numeric |-> FALSE, lat |-> 0, lon |-> 0]
NoResponse == [status |-> 0, error |-> "", data |-> <<>>]
NoLookup == [outcome |-> "none", age |-> 0, data |-> <<>>]

\* NextResponse.json(body, {status})
ErrorResponse(status, error) == [status |-> status, error |-> error, data |-> <<>>]
DataResponse(data) == [status |-> 200, error |-> "", data |-> <<data>>]

\* the server before any request: an empty cache
ServerIdle ==
    /\ request = NoRequest
    /\ pc = "idle"
    /\ cacheKey = <<>>
    /\ lookup = NoLookup
    /\ plan = <<>>
    /\ strategy = 0
    /\ calls = <<>>
    /\ rejected = 0
    /\ sawFailure = FALSE
    /\ allEmpty = TRUE
    /\ lastResults = <<>>
    /\ reverseFetched = <<>>
    /\ forecastFetched = <<>>
    /\ geoResult = <<>>
    /\ geoThrew = FALSE
    /\ located = <<>>
    /\ forecastCalls = 0
    /\ reverseCalls = 0
    /\ response = NoResponse
    /\ cache = {}
    /\ now = 0
    /\ served = 0

\* the filter is not being run on its own
FilterIdle ==
    /\ cityName = <<>>
    /\ results = <<>>
    /\ filtered = <<>>
    /\ filterPc = "idle"

\* the text functions are not being run on their own
TextIdle ==
    /\ text = <<>>
    /\ textOut = <<>>
    /\ textPc = "idle"
    /\ summaryIn = <<>>
    /\ summaryOut = <<>>

\* geocodeCity has not returned
NoResult == [kind |-> "pending", value |-> <<>>]

\* geocodeCity is not being run twice
RepeatIdle ==
    /\ runInput = <<>>
    /\ runNo = 0
    /\ runPc = "idle"
    /\ runPlan = <<>>
    /\ runCalls = <<>>
    /\ runResult = NoResult
    /\ answered = {}
    /\ firstRun = <<>>

\* the number of fetches the page has in flight at once
MaxInflight == 1

\* the page after mount, with an empty recent-search list
PageMounted ==
    /\ pageState = "empty"
    /\ weatherData = <<>>
    /\ errorMessage = ""
    /\ recentSearches = <<>>
    /\ lastFetchedCoords = <<>>
    /\ position = <<>>
    /\ inflight = {}
    /\ skipped = 0
    /\ geoLoading = FALSE
    /\ burst = <<>>

\* the page after mount, its fetches answered one at a time
PageIdle == PageMounted /\ limit = MaxInflight

\* ------------------------------------------------------------------------
\* The filter on its own: one call of filterGeocodingResults(results, cityName)
\* ------------------------------------------------------------------------

InitFilter ==
    /\ cityName \in FilterInputs
    /\ results \in Batches
    /\ filtered = <<>>
    /\ filterPc = "call"
    /\ ServerIdle
    /\ TextIdle
    /\ RepeatIdle
    /\ PageIdle

\* the call runs and returns
CallFilter ==
    /\ filterPc = "call"
    /\ filtered' = filterGeocodingResults(results, cityName)
    /\ filterPc' = "returned"
    /\ UNCHANGED <<cityName, results, serverVars, textVars, repeatVars, pageVars>>

NextFilter == CallFilter

SpecFilter == InitFilter /\ [][NextFilter]_vars

\* ------------------------------------------------------------------------
\* src/unnamed/part_004 : GET, with geocodeCity, reverseGeocode and getForecast
\* ------------------------------------------------------------------------

Init == FilterIdle /\ ServerIdle /\ TextIdle /\ RepeatIdle /\ PageIdle

\* a request may start: the previous one has returned
CanStart == pc = "idle" /\ served < MaxRequests

\* the handler returns `resp` without fetching anything
RespondAtOnce(req, key, found, resp) ==
    /\ request' = req
    /\ pc' = "responded"
    /\ cacheKey' = key
    /\ lookup' = found
    /\ plan' = <<>>
    /\ strategy' = 0
    /\ calls' = <<>>
    /\ rejected' = 0
    /\ sawFailure' = FALSE
    /\ allEmpty' = TRUE
    /\ lastResults' = <<>>
    /\ reverseFetched' = <<>>
    /\ forecastFetched' = <<>>
    /\ geoResult' = <<>>
    /\ geoThrew' = FALSE
    /\ located' = <<>>
    /\ forecastCalls' = 0
    /\ reverseCalls' = 0
    /\ response' = resp

\* GET ?city=c, lines 584-602, up to the first fetch of geocodeCity (lines 303-325 / 390)
StartCityRequest(c) ==
    LET req == [kind |-> "city", city |-> c, numeric |-> FALSE, lat |-> 0, lon |-> 0]
        key == normalizeCity(c)
        cached == getCachedData(cache, getCacheKey(key), now)
        steps == GeocodePlan(c)
    IN  /\ CanStart
        /\ served' = served + 1
        /\ now' = now
        /\ IF TrimmedCity(c) = <<>>
           THEN /\ RespondAtOnce(req, <<>>, NoLookup, ErrorResponse(400, "City parameter is required"))
                /\ cache' = cache
           ELSE /\ cache' = CacheAfterGet(cache, getCacheKey(key), now)
                /\ IF cached # <<>>
                   THEN RespondAtOnce(req, key, LookupOf(cache, getCacheKey(key), now),
                                      DataResponse(cached[1]))
                   ELSE /\ request' = req
                        /\ pc' = "geocoding"
                        /\ cacheKey' = key
                        /\ lookup' = LookupOf(cache, getCacheKey(key), now)
                        /\ plan' = steps
                        /\ strategy' = steps[1].strategy
                        /\ calls' = <<steps[1].call>>
                        /\ rejected' = 0
                        /\ sawFailure' = FALSE
                        /\ allEmpty' = TRUE
                        /\ lastResults' = <<>>
                        /\ reverseFetched' = <<>>
                        /\ forecastFetched' = <<>>
                        /\ geoResult' = <<>>
                        /\ geoThrew' = FALSE
                        /\ located' = <<>>
                        /\ forecastCalls' = 0
                        /\ reverseCalls' = 0
                        /\ response' = NoResponse
        /\ UNCHANGED outsideServer

\* GET ?lat=..&lon=.., lines 554-575, up to the fetch of reverseGeocode
StartCoordRequest(p) ==
    LET req == [kind |-> "coords", city |-> <<>>, numeric |-> p.numeric, lat |-> p.lat, lon |-> p.lon]
        key == CoordCacheKey(p.lat, p.lon)
        cached == getCachedData(cache, getCacheKey(key), now)
    IN  /\ CanStart
        /\ served' = served + 1
        /\ now' = now
        /\ IF ~p.numeric
           THEN /\ RespondAtOnce(req, <<>>, NoLookup, ErrorResponse(400, "Invalid latitude or longitude"))
                /\ cache' = cache
           ELSE /\ cache' = CacheAfterGet(cache, getCacheKey(key), now)
                /\ IF cached # <<>>
                   THEN RespondAtOnce(req, key, LookupOf(cache, getCacheKey(key), now),
                                      DataResponse(cached[1]))
                   ELSE /\ request' = req
                        /\ pc' = "reverse"
                        /\ cacheKey' = key
                        /\ lookup' = LookupOf(cache, getCacheKey(key), now)
                        /\ plan' = <<>>
                        /\ strategy' = 0
                        /\ calls' = <<>>
                        /\ rejected' = 0
                        /\ sawFailure' = FALSE
                        /\ allEmpty' = TRUE
                        /\ lastResults' = <<>>
                        /\ reverseFetched' = <<>>
                        /\ forecastFetched' = <<>>
                        /\ geoResult' = <<>>
                        /\ geoThrew' = FALSE
                        /\ located' = <<>>
                        /\ forecastCalls' = 0
                        /\ reverseCalls' = 1
                        /\ response' = NoResponse
        /\ UNCHANGED outsideServer

\* GET without coordinates and without city, lines 614-619
StartEmptyRequest ==
    /\ CanStart
    /\ served' = served + 1
    /\ RespondAtOnce([NoRequest EXCEPT !.kind = "empty"], <<>>, NoLookup,
                     ErrorResponse(400, "Either coordinates (lat, lon) or city parameter is required"))
    /\ UNCHANGED <<cache, now, outsideServer>>

\* the answer of the awaited geocoding fetch arrives: geocodeCityWithFallback returns,
\* geocodeCity filters the batch and returns, throws or fetches the next strategy;
\* GET goes on to getForecast (line 622), answers 404 (line 604) or 500 (line 643)
GeocodeAnswer(a) ==
    LET batch == geocodeCityWithFallback(a)
        step == plan[Len(calls)]
        throws == batch # <<>> /\ FilterThrows(batch, step.guarded)
        f == IF batch = <<>> THEN <<>> ELSE FilterBranch(batch, step.guarded)
        more == Len(calls) < Len(plan)
    IN  /\ pc = "geocoding"
        /\ lastResults' = batch
        /\ UNCHANGED <<reverseFetched, forecastFetched>>
        /\ sawFailure' = (sawFailure \/ a.kind # "ok" \/ \E i \in 1..Len(a.results) : a.results[i].nullish)
        /\ allEmpty' = (allEmpty /\ a.kind = "ok" /\ a.results = <<>>)
        /\ calls' = IF throws THEN calls ELSE CallsAfter(calls, plan, f)
        /\ IF throws
           THEN /\ geoThrew' = TRUE
                /\ pc' = "responded"
                /\ response' = ErrorResponse(500, "Failed to fetch weather data. Please try again later.")
                /\ UNCHANGED <<strategy, rejected, geoResult, located, forecastCalls>>
           ELSE IF Accepted(f)
           THEN /\ geoResult' = f
                /\ located' = <<[name |-> f[1].name, country |-> f[1].country,
                                 latitude |-> f[1].latitude, longitude |-> f[1].longitude]>>
                /\ forecastCalls' = forecastCalls + 1
                /\ pc' = "forecast"
                /\ UNCHANGED <<strategy, rejected, geoThrew, response>>
           ELSE IF more
           THEN /\ strategy' = plan[Len(calls) + 1].strategy
                /\ rejected' = rejected + 1
                /\ UNCHANGED <<pc, geoResult, geoThrew, located, forecastCalls, response>>
           ELSE /\ rejected' = rejected + 1
                /\ pc' = "responded"
                /\ response' = ErrorResponse(404, "City not found")
                /\ UNCHANGED <<strategy, geoResult, geoThrew, located, forecastCalls>>
        /\ UNCHANGED <<request, cacheKey, lookup, plan, reverseCalls, cache, now, served, outsideServer>>

\* the answer of the reverse-geocoding fetch arrives, lines 508-537 and 576-583;
\* GET goes on to getForecast
ReverseAnswer(a) ==
    LET geocodeResult == reverseGeocode(a)
        place == PlaceNames(geocodeResult)
    IN  /\ pc = "reverse"
        /\ reverseFetched' = <<a>>
        /\ located' = <<[name |-> place.name, country |-> place.country,
                         latitude |-> request.lat, longitude |-> request.lon]>>
        /\ forecastCalls' = forecastCalls + 1
        /\ pc' = "forecast"
        /\ UNCHANGED <<request, cacheKey, lookup, plan, strategy, calls, rejected, sawFailure, allEmpty,
                       lastResults, forecastFetched, geoResult, geoThrew, reverseCalls, response,
                       cache, now, served, outsideServer>>

\* the answer of the forecast fetch arrives, lines 427-436 and 624-647
ForecastAnswer(a) ==
    LET data == shapeWeatherResponse(located[1].name, located[1].country,
                                     located[1].latitude, located[1].longitude)
    IN  /\ pc = "forecast"
        /\ pc' = "responded"
        /\ forecastFetched' = <<a>>
        /\ IF a.kind # "ok"
           THEN /\ response' = ErrorResponse(500, "Failed to fetch weather data. Please try again later.")
                /\ cache' = cache
           ELSE IF ~a.complete
           THEN /\ response' = ErrorResponse(500, "Invalid forecast data received")
                /\ cache' = cache
           ELSE /\ response' = DataResponse(data)
                /\ cache' = setCachedData(cache, getCacheKey(cacheKey), data, now)
        /\ UNCHANGED <<request, cacheKey, lookup, plan, strategy, calls, rejected, sawFailure, allEmpty,
                       lastResults, reverseFetched, geoResult, geoThrew, located, forecastCalls,
                       reverseCalls,
                       now, served, outsideServer>>

\* GET has returned its response: the locals of the request are gone
Return ==
    /\ pc = "responded"
    /\ request' = NoRequest
    /\ pc' = "idle"
    /\ cacheKey' = <<>>
    /\ lookup' = NoLookup
    /\ plan' = <<>>
    /\ strategy' = 0
    /\ calls' = <<>>
    /\ rejected' = 0
    /\ sawFailure' = FALSE
    /\ allEmpty' = TRUE
    /\ lastResults' = <<>>
    /\ reverseFetched' = <<>>
    /\ forecastFetched' = <<>>
    /\ geoResult' = <<>>
    /\ geoThrew' = FALSE
    /\ located' = <<>>
    /\ forecastCalls' = 0
    /\ reverseCalls' = 0
    /\ response' = NoResponse
    /\ UNCHANGED <<cache, now, served, outsideServer>>

\* time passes; Date.now() is read only when a request starts (line 78) and when
\* its forecast has arrived (line 91), so the clock is advanced just before these
Tick ==
    /\ pc \in {"idle", "forecast"}
    /\ now < MaxTicks * TickStep
    /\ now' = now + TickStep
    /\ UNCHANGED <<requestVars, cache, served, outsideServer>>

Next ==
    \/ \E c \in CityInputs : StartCityRequest(c)
    \/ \E p \in CoordInputs : StartCoordRequest(p)
    \/ StartEmptyRequest
    \/ \E a \in GeocodeAnswers : GeocodeAnswer(a)
    \/ \E a \in ReverseAnswers : ReverseAnswer(a)
    \/ \E a \in ForecastAnswers : ForecastAnswer(a)
    \/ Return
    \/ Tick

Spec == Init /\ [][Next]_vars

\* ------------------------------------------------------------------------
\* normalizeCityName and geocodeCity's ladder on their own, for one input text
\* ------------------------------------------------------------------------

InitText ==
    /\ text \in Texts
    /\ textOut = <<>>
    /\ textPc = "call"
    /\ summaryIn = <<>>
    /\ summaryOut = <<>>
    /\ FilterIdle
    /\ ServerIdle
    /\ RepeatIdle
    /\ PageIdle

\* normalizeCityName(text), normalizeCityName of that, and the fetches of
\* geocodeCity(text) are computed
CallText ==
    /\ textPc = "call"
    /\ textOut' = <<[normalized |-> normalizeCityName(text),
                     renormalized |-> normalizeCityName(normalizeCityName(text)),
                     plan |-> GeocodePlan(text),
                     client |-> geocodeCityName(text)]>>
    /\ textPc' = "returned"
    /\ UNCHANGED <<text, summaryIn, summaryOut, filterVars, serverVars, repeatVars, pageVars>>

NextText == CallText

SpecText == InitText /\ [][NextText]_vars

\* ------------------------------------------------------------------------
\* src/lib/weatherCodes.ts and src/app/page.tsx : the summary line, computed for
\* one WeatherData and one unit
\* ------------------------------------------------------------------------

\* 'Clear sky', 'Overcast', 'Thunderstorm', 'Unknown'
LabelClearSky == <<67, 108, 101, 97, 114, 32, 115, 107, 121>>
LabelOvercast == <<79, 118, 101, 114, 99, 97, 115, 116>>
LabelThunderstorm == <<84, 104, 117, 110, 100, 101, 114, 115, 116, 111, 114, 109>>
LabelUnknown == <<85, 110, 107, 110, 111, 119, 110>>

\* the icons: sun, cloud, thunder cloud (each followed by U+FE0F)
IconSun == <<9728, 65039>>
IconCloud == <<9729, 65039>>
IconThunder == <<9928, 65039>>

\* the keys of weatherCodeMap taken up here
MappedCodes == {0, 3, 95}

\* getWeatherInfo, line 61: the entry of the code, or the default
getWeatherInfo(code) ==
    CASE code = 0 -> [label |-> LabelClearSky, icon |-> IconSun]
      [] code = 3 -> [label |-> LabelOvercast, icon |-> IconCloud]
      [] code = 95 -> [label |-> LabelThunderstorm, icon |-> IconThunder]
      [] OTHER -> [label |-> LabelUnknown, icon |-> IconSun]

\* getWeatherLabel and getWeatherIcon, lines 67-76
getWeatherLabel(code) == getWeatherInfo(code).label
getWeatherIcon(code) == getWeatherInfo(code).icon

\* Math.round(num / den) for den > 0: halves go up
MathRound(num, den) == (2 * num + den) \div (2 * den)

\* cToF, lines 191-193, of a temperature in tenths of a degree
cToF(c) == MathRound(9 * c + 1600, 50)

\* formatTemp, lines 196-200, of a temperature in tenths of a degree: the
\* number and the symbol of the string
formatTemp(tempC, unit) ==
    [value |-> IF unit = "f" THEN cToF(tempC) ELSE MathRound(tempC, 10),
     symbol |-> IF unit = "f" THEN "F" ELSE "C"]

\* a || b for numbers: b when a is 0 (or NaN)
OrElse(a, b) == IF a # 0 THEN a ELSE b

\* data.daily[0]?.high || data.current.temperature, line 204
SummaryHigh(data) ==
    IF data.daily = <<>> THEN data.current.temperature
    ELSE OrElse(data.daily[1].high, data.current.temperature)

\* data.daily[0]?.weatherCode || data.current.weatherCode, lines 205 and 212
SummaryCode(data) ==
    IF data.daily = <<>> THEN data.current.weatherCode
    ELSE OrElse(data.daily[1].weatherCode, data.current.weatherCode)

\* getSummaryText, lines 203-208: the condition and the temperature of
\* `${condition} with a high of ${formatTemp(high, unit)}`
getSummaryText(data, unit) ==
    [condition |-> ToLowerCase(getWeatherLabel(SummaryCode(data))),
     high |-> formatTemp(SummaryHigh(data), unit)]

\* getSummaryIcon, lines 211-214
getSummaryIcon(data) == getWeatherIcon(SummaryCode(data))

\* temperatures in tenths of a degree: 0, 0.4, 21.5 and -3
SummaryTemperatures == {0, 4, 215, -30}

\* weather codes: clear sky, overcast, thunderstorm and one that is not mapped
SummaryCodes == MappedCodes \cup {4}

\* the WeatherData given: current conditions and no or one daily entry
SummaryData ==
    {[current |-> [temperature |-> t, weatherCode |-> c], daily |-> d] :
        t \in {4, 215}, c \in {3, 95},
        d \in {<<>>} \cup {<<[high |-> h, weatherCode |-> w]>> :
                                h \in SummaryTemperatures, w \in SummaryCodes}}

InitSummary ==
    /\ summaryIn \in {<<[data |-> d, unit |-> u]>> : d \in SummaryData, u \in {"c", "f"}}
    /\ summaryOut = <<>>
    /\ text = <<>>
    /\ textOut = <<>>
    /\ textPc = "idle"
    /\ FilterIdle
    /\ ServerIdle
    /\ RepeatIdle
    /\ PageIdle

\* the summary line is rendered
CallSummary ==
    /\ summaryIn # <<>>
    /\ summaryOut = <<>>
    /\ summaryOut' = <<[text |-> getSummaryText(summaryIn[1].data, summaryIn[1].unit),
                        icon |-> getSummaryIcon(summaryIn[1].data)]>>
    /\ UNCHANGED <<summaryIn, text, textOut, textPc, filterVars, serverVars, repeatVars, pageVars>>

NextSummary == CallSummary

SpecSummary == InitSummary /\ [][NextSummary]_vars

\* ------------------------------------------------------------------------
\* geocodeCity run twice on one city parameter, against a geocoding service that
\* answers a (query, language) pair the way it answered it before
\* ------------------------------------------------------------------------

\* the number of runs
MaxRuns == 2

\* geocodeCity that has been run before asks its first query only
RunPlanRemembering(city) ==
    IF runNo = 0 \/ GeocodePlan(city) = <<>> THEN GeocodePlan(city)
    ELSE SubSeq(GeocodePlan(city), 1, 1)

\* the fetches a run makes while nothing is accepted: they follow from the city
\* parameter alone (geocodeCity reads no state of the module)
RunPlan(city) == GeocodePlan(city)

\* the outcomes of one geocoding fetch in these runs: a failure, no result, and
\* the batches that the guard and the general rule treat differently
RunAnswers ==
    {a \in GeocodeAnswers :
        /\ a.kind \in {"not_ok", "ok"}
        /\ a.results \in {<<>>, <<CandAmmanJordan>>, <<CandOmanAr, CandAmmanJordan>>,
                          <<CandOmanAr>>, <<NullEntry, NullEntry>>}}

\* the service may give answer a to the call: it has not been asked that pair
\* yet, or a is the answer it gave
ServiceAnswers(call, a) == \A e \in answered : e.call = call => e.answer = a

InitRepeat ==
    /\ runInput \in CityInputs
    /\ runNo = 0
    /\ runPc = "idle"
    /\ runPlan = <<>>
    /\ runCalls = <<>>
    /\ runResult = NoResult
    /\ answered = {}
    /\ firstRun = <<>>
    /\ FilterIdle
    /\ ServerIdle
    /\ TextIdle
    /\ PageIdle

\* geocodeCity(runInput) is called, lines 303-325 / 390: it returns null for a
\* blank parameter and otherwise issues its first fetch; a second call starts
\* when the first has returned
StartRun ==
    LET steps == RunPlan(runInput)
    IN  /\ runPc = IF runNo = 0 THEN "idle" ELSE "done"
        /\ runNo < MaxRuns
        /\ runNo' = runNo + 1
        /\ firstRun' = IF runNo = 0 THEN <<>> ELSE <<[calls |-> runCalls, result |-> runResult]>>
        /\ runPlan' = steps
        /\ IF steps = <<>>
           THEN /\ runPc' = "done"
                /\ runCalls' = <<>>
                /\ runResult' = [kind |-> "null", value |-> <<>>]
           ELSE /\ runPc' = "awaiting"
                /\ runCalls' = <<steps[1].call>>
                /\ runResult' = NoResult
        /\ UNCHANGED <<runInput, answered, filterVars, serverVars, textVars, pageVars>>

\* the answer of the awaited fetch arrives: the batch is filtered, and geocodeCity
\* returns the accepted record, throws, issues its next fetch or returns null
RunAnswer(a) ==
    LET call == runCalls[Len(runCalls)]
        step == runPlan[Len(runCalls)]
        batch == geocodeCityWithFallback(a)
        throws == batch # <<>> /\ FilterThrows(batch, step.guarded)
        f == IF batch = <<>> THEN <<>> ELSE FilterBranch(batch, step.guarded)
    IN  /\ runPc = "awaiting"
        /\ ServiceAnswers(call, a)
        /\ answered' = answered \cup {[call |-> call, answer |-> a]}
        /\ runCalls' = IF throws THEN runCalls ELSE CallsAfter(runCalls, runPlan, f)
        /\ IF throws
           THEN /\ runPc' = "done"
                /\ runResult' = [kind |-> "throw", value |-> <<>>]
           ELSE IF Accepted(f)
           THEN /\ runPc' = "done"
                /\ runResult' = [kind |-> "location", value |-> f]
           ELSE IF Len(runCalls) < Len(runPlan)
           THEN UNCHANGED <<runPc, runResult>>
           ELSE /\ runPc' = "done"
                /\ runResult' = [kind |-> "null", value |-> <<>>]
        /\ UNCHANGED <<runInput, runNo, runPlan, firstRun, filterVars, serverVars, textVars,
                       pageVars>>

NextRepeat ==
    \/ StartRun
    \/ \E a \in RunAnswers : RunAnswer(a)

SpecRepeat == InitRepeat /\ [][NextRepeat]_vars

\* ------------------------------------------------------------------------
\* src/app/page.tsx : the page, its fetches answered by the routes in any way
\* ------------------------------------------------------------------------

\* MAX_RECENT_SEARCHES
MAX_RECENT_SEARCHES == 5

\* the number of calls of fetchWeatherByCity with a blank argument
MaxSkipped == 1

\* the number of fetches of one burst
MaxBurst == 2

\* 'Rome', 'Bern', 'Lima', 'LIMA ', 'Nice', 'Oslo'
TypedRome == <<82, 111, 109, 101>>
TypedBern == <<66, 101, 114, 110>>
TypedLima == <<76, 105, 109, 97>>
TypedLimaUpper == <<76, 73, 77, 65, 32>>
TypedNice == <<78, 105, 99, 101>>
TypedOslo == <<79, 115, 108, 111>>

\* the texts the user searches for: with the entry of a location search they
\* make six entries that differ ignoring case, one more than the list keeps
PageCities == {TypedRome, TypedBern, TypedLima, TypedLimaUpper, TypedNice, TypedOslo}

\* the response bodies of a successful fetch: city and country of WeatherData
PageData == {[city |-> NameAmman, country |-> CountryJordan]}

\* the positions the browser reports, in units of 0.00001 degree
PagePositions ==
    { [lat |-> 3195391, lon |-> 3593002],
      [lat |-> 5991390, lon |-> 1075220] }

\* the position of a user who stays in one place
HomePositions == {p \in PagePositions : p.lat = 3195391}

\* the outcomes of one fetch of the page: fetch rejects ("network_error"), or the
\* response is OK or not and its body parses to WeatherData / to {error} with or
\* without a message, or does not parse
PageResponses ==
    {[kind |-> "ok", data |-> <<d>>] : d \in PageData}
        \cup {[kind |-> k, data |-> <<>>] :
                k \in {"ok_unparsable", "not_ok", "not_ok_no_message", "not_ok_unparsable",
                       "network_error"}}

\* the outcomes the page is run with: a success, an error answer, a failed fetch
PageOutcomes == {r \in PageResponses : r.kind \in {"ok", "not_ok", "network_error"}}

\* the fetch ends in the success branch
Succeeds(r) == r.kind = "ok"

\* errorMessage without the fallback of line 78: errorData.error as it is
ErrorMessageOfWithoutFallback(r) ==
    CASE r.kind = "not_ok" -> "City not found"
      [] r.kind = "not_ok_no_message" -> ""
      [] r.kind = "not_ok_unparsable" -> "Unknown error"
      [] OTHER -> "Network error. Please check your connection and try again."

\* errorMessage after a fetch that did not succeed, lines 77-78 and 95-96
ErrorMessageOf(r) ==
    CASE r.kind = "not_ok" -> "City not found"
      [] r.kind = "not_ok_no_message" -> "Failed to fetch weather data"
      [] r.kind = "not_ok_unparsable" -> "Unknown error"
      [] OTHER -> "Network error. Please check your connection and try again."

\* the updater of setRecentSearches that removes only the items equal to the entry
AddRecentSearchCaseSensitive(prev, entry) ==
    LET kept == SelectSeq(prev, LAMBDA item : item # entry)
        added == <<entry>> \o kept
    IN  SubSeq(added, 1, IF Len(added) < MAX_RECENT_SEARCHES THEN Len(added)
                         ELSE MAX_RECENT_SEARCHES)

\* the updater given to setRecentSearches, lines 88-91 and 136-139
AddRecentSearch(prev, entry) ==
    LET kept == SelectSeq(prev, LAMBDA item : ToLowerCase(item) # ToLowerCase(entry))
        added == <<entry>> \o kept
    IN  SubSeq(added, 1, IF Len(added) < MAX_RECENT_SEARCHES THEN Len(added)
                         ELSE MAX_RECENT_SEARCHES)

\* useLocalStorage: the lists an updater given to its setter may be applied to,
\* the current one or, when the setter belongs to the first render, the initial one
StoredValues == {recentSearches, <<>>}

\* `${data.city}, ${data.country}`, line 135
LocationEntry(data) == data.city \o <<44, 32>> \o data.country

\* the entry a fetch adds to the recent searches when it succeeds with data
EntryOf(f, data) == IF f.kind = "city" THEN Trim(f.city) ELSE LocationEntry(data)

\* fetchWeatherByCity returns at once for every argument but the empty string
CityIsEmpty(city) == city = <<>>

\* `!city.trim()`, line 66
CityIsBlank(city) == Trim(city) = <<>>

\* what an action of the page leaves alone
outsidePage == <<filterVars, serverVars, textVars, repeatVars>>

\* the page may start the fetch f
MayFetch(f) ==
    /\ f \notin inflight
    /\ Cardinality(inflight) < limit
    /\ Len(burst) < MaxBurst

\* the burst once the fetch f is started
BurstWith(f) == Append(burst, [fetch |-> f, answer |-> <<>>])

\* the burst once the fetch f is answered by r
BurstAfter(f, r) ==
    IF inflight \ {f} = {} THEN <<>>
    ELSE [i \in 1..Len(burst) |->
            IF burst[i].fetch = f /\ burst[i].answer = <<>>
            THEN [burst[i] EXCEPT !.answer = <<r>>]
            ELSE burst[i]]

\* fetchWeatherByCity(city) up to its fetch, lines 65-74
fetchWeatherByCity(city) ==
    LET f == [kind |-> "city", city |-> city, lat |-> 0, lon |-> 0]
    IN  IF CityIsBlank(city)
        THEN /\ skipped < MaxSkipped
             /\ skipped' = skipped + 1
             /\ UNCHANGED <<pageState, weatherData, errorMessage, recentSearches,
                            lastFetchedCoords, position, inflight, geoLoading, limit, burst>>
        ELSE /\ MayFetch(f)
             /\ pageState' = "loading"
             /\ errorMessage' = ""
             /\ inflight' = inflight \cup {f}
             /\ burst' = BurstWith(f)
             /\ UNCHANGED <<weatherData, recentSearches, lastFetchedCoords, position, skipped,
                            geoLoading, limit>>

\* fetchWeatherByCity is called with a text
SearchCityName(city) ==
    /\ fetchWeatherByCity(city)
    /\ UNCHANGED outsidePage

\* handleRecentSearchSelect(recentSearches[i]), lines 177-180
handleRecentSearchSelect(i) ==
    /\ i \in 1..Len(recentSearches)
    /\ fetchWeatherByCity(recentSearches[i])
    /\ UNCHANGED outsidePage

\* handleClearRecentSearches, lines 182-184
handleClearRecentSearches ==
    /\ recentSearches # <<>>
    /\ recentSearches' = <<>>
    /\ UNCHANGED <<pageState, weatherData, errorMessage, lastFetchedCoords, position,
                   inflight, skipped, geoLoading, limit, burst, outsidePage>>

\* the fetch of fetchWeatherByCity is answered, lines 76-99
CityResponse(f, r) ==
    /\ f \in inflight
    /\ f.kind = "city"
    /\ inflight' = inflight \ {f}
    /\ burst' = BurstAfter(f, r)
    /\ IF Succeeds(r)
       THEN /\ weatherData' = r.data
            /\ pageState' = "success"
            /\ \E prev \in StoredValues :
                   recentSearches' = AddRecentSearch(prev, EntryOf(f, r.data[1]))
            /\ UNCHANGED errorMessage
       ELSE /\ errorMessage' = ErrorMessageOf(r)
            /\ pageState' = "error"
            /\ weatherData' = <<>>
            /\ UNCHANGED recentSearches
    /\ UNCHANGED <<lastFetchedCoords, position, skipped, geoLoading, limit, outsidePage>>

\* requestLocation, useGeolocation.ts lines 22-70, up to getCurrentPosition (the
\* browser has navigator.geolocation): latitude and longitude are kept
requestLocation ==
    /\ ~geoLoading
    /\ geoLoading' = TRUE
    /\ UNCHANGED <<pageState, weatherData, errorMessage, recentSearches, lastFetchedCoords,
                   position, inflight, skipped, limit, burst, outsidePage>>

\* the browser reports position p (useGeolocation.ts, success callback, lines
\* 36-43); the effect of lines 153-163 runs when latitude or longitude changed
\* and calls fetchWeatherByLocation, lines 105-121, unless p was fetched last
PositionArrives(p) ==
    LET f == [kind |-> "location", city |-> <<>>, lat |-> p.lat, lon |-> p.lon]
    IN  /\ geoLoading
        /\ geoLoading' = FALSE
        /\ position' = <<p>>
        /\ IF position # <<p>> /\ lastFetchedCoords # <<p>>
           THEN /\ MayFetch(f)
                /\ lastFetchedCoords' = <<p>>
                /\ pageState' = "loading"
                /\ errorMessage' = ""
                /\ inflight' = inflight \cup {f}
                /\ burst' = BurstWith(f)
           ELSE UNCHANGED <<lastFetchedCoords, pageState, errorMessage, inflight, burst>>
        /\ UNCHANGED <<weatherData, recentSearches, skipped, limit, outsidePage>>

\* the browser reports an error (error callback, lines 44-63): latitude and
\* longitude become null
PositionError ==
    /\ geoLoading
    /\ geoLoading' = FALSE
    /\ position' = <<>>
    /\ UNCHANGED <<pageState, weatherData, errorMessage, recentSearches, lastFetchedCoords,
                   inflight, skipped, limit, burst, outsidePage>>

\* the fetch of fetchWeatherByLocation is answered, lines 123-149
LocationResponse(f, r) ==
    /\ f \in inflight
    /\ f.kind = "location"
    /\ inflight' = inflight \ {f}
    /\ burst' = BurstAfter(f, r)
    /\ IF Succeeds(r)
       THEN /\ weatherData' = r.data
            /\ pageState' = "success"
            /\ \E prev \in StoredValues :
                   recentSearches' = AddRecentSearch(prev, EntryOf(f, r.data[1]))
            /\ UNCHANGED <<errorMessage, lastFetchedCoords>>
       ELSE /\ errorMessage' = ErrorMessageOf(r)
            /\ pageState' = "error"
            /\ weatherData' = <<>>
            /\ lastFetchedCoords' = <<>>
            /\ UNCHANGED recentSearches
    /\ UNCHANGED <<position, skipped, geoLoading, limit, outsidePage>>

InitPage == Init

NextPage ==
    \/ \E city \in PageCities : SearchCityName(city)
    \/ \E i \in 1..MAX_RECENT_SEARCHES : handleRecentSearchSelect(i)
    \/ handleClearRecentSearches
    \/ requestLocation
    \/ \E p \in HomePositions : PositionArrives(p)
    \/ PositionError
    \/ \E f \in inflight, r \in PageOutcomes : CityResponse(f, r)
    \/ \E f \in inflight, r \in PageOutcomes : LocationResponse(f, r)

SpecPage == InitPage /\ [][NextPage]_vars

\* ------------------------------------------------------------------------
\* The page with fetches that overlap: a search or a position may start a fetch
\* while an earlier fetch is unanswered, and the answers arrive in any order
\* ------------------------------------------------------------------------

\* the number of fetches in flight at once
MaxOverlap == 2

\* the texts searched for
OverlapCities == {TypedRome, TypedBern}

InitOverlap ==
    /\ FilterIdle
    /\ ServerIdle
    /\ TextIdle
    /\ RepeatIdle
    /\ PageMounted
    /\ limit = MaxOverlap

NextOverlap ==
    \/ \E city \in OverlapCities : SearchCityName(city)
    \/ \E i \in 1..MAX_RECENT_SEARCHES : handleRecentSearchSelect(i)
    \/ handleClearRecentSearches
    \/ requestLocation
    \/ \E p \in PagePositions : PositionArrives(p)
    \/ PositionError
    \/ \E f \in inflight, r \in PageResponses : CityResponse(f, r)
    \/ \E f \in inflight, r \in PageResponses : LocationResponse(f, r)

SpecOverlap == InitOverlap /\ [][NextOverlap]_vars

\* ------------------------------------------------------------------------
\* A search from the page to the route and back: fetchWeatherByCity fetches
\* /api/weather?city=..., GET runs geocodeCity and getForecast, and its response
\* is what the fetch of the page is answered with; every network call settles
\* ------------------------------------------------------------------------

\* the texts searched for
SearchCities == {InTokyo, InNewYork, InFiMakkah}

\* the response of GET as the fetch of the page receives it
ResponseSeen(resp) ==
    IF resp.status = 200 THEN [kind |-> "ok", data |-> resp.data]
    ELSE [kind |-> "not_ok", data |-> <<>>]

\* the user submits a search, the page showing no search under way
SubmitSearch(city) ==
    /\ CanStart
    /\ inflight = {}
    /\ SearchCityName(city)

\* the request of the page's fetch reaches GET
RequestArrives ==
    \E f \in inflight :
        /\ f.kind = "city"
        /\ StartCityRequest(f.city)

\* the fetch of the page rejects before its request reached GET
FetchRejects ==
    \E f \in inflight :
        /\ pc = "idle"
        /\ CityResponse(f, [kind |-> "network_error", data |-> <<>>])

\* the response of GET reaches the page
ResponseArrives ==
    \E f \in inflight :
        /\ pc = "responded"
        /\ CityResponse(f, ResponseSeen(response))

\* GET is over, its response delivered
RequestOver ==
    /\ inflight = {}
    /\ Return

InitSearch == Init

NextSearch ==
    \/ \E city \in SearchCities : SubmitSearch(city)
    \/ RequestArrives
    \/ FetchRejects
    \/ \E a \in GeocodeAnswers : GeocodeAnswer(a)
    \/ \E a \in ForecastAnswers : ForecastAnswer(a)
    \/ ResponseArrives
    \/ RequestOver
    \/ Tick

\* each network call settles: the request of the page is delivered or rejected,
\* each fetch of GET is answered, and the response of GET is delivered
SpecSearch ==
    /\ InitSearch
    /\ [][NextSearch]_vars
    /\ WF_vars(FetchRejects \/ RequestArrives)
    /\ WF_vars(\E a \in GeocodeAnswers : GeocodeAnswer(a))
    /\ WF_vars(\E a \in ForecastAnswers : ForecastAnswer(a))
    /\ WF_vars(ResponseArrives)

\* ------------------------------------------------------------------------
\* One text given to the three places that take a city: geocodeCity, GET and
\* fetchWeatherByCity, one after the other in any order
\* ------------------------------------------------------------------------

\* '', ' ', '  ', ' \t', 'Tokyo', 'LIMA ' and the Arabic name of Amman
EntryTexts == {<<>>, <<32>>, InBlank, <<32, 9>>, InTokyo, TypedLimaUpper, StrAmmanAr}

InitEntry ==
    /\ runInput \in EntryTexts
    /\ runNo = 0
    /\ runPc = "idle"
    /\ runPlan = <<>>
    /\ runCalls = <<>>
    /\ runResult = NoResult
    /\ answered = {}
    /\ firstRun = <<>>
    /\ FilterIdle
    /\ ServerIdle
    /\ TextIdle
    /\ PageIdle

\* neither geocodeCity nor GET nor a fetch of the page is under way
Quiet ==
    /\ runPc \in {"idle", "done"}
    /\ pc = "idle"
    /\ inflight = {}

\* geocodeCity(runInput) is called
EntryRun ==
    /\ Quiet
    /\ StartRun

\* GET /api/weather?city=c arrives, c being the text or 'Tokyo'; the empty
\* text is a falsy `city` and takes the last branch of GET (line 614)
EntryGet(c) ==
    /\ Quiet
    /\ IF c = <<>> THEN StartEmptyRequest ELSE StartCityRequest(c)

\* fetchWeatherByCity(runInput) is called
EntryPage ==
    /\ Quiet
    /\ SearchCityName(runInput)

NextEntry ==
    \/ EntryRun
    \/ \E a \in RunAnswers : RunAnswer(a)
    \/ \E c \in {runInput, InTokyo} : EntryGet(c)
    \/ \E a \in GeocodeAnswers : GeocodeAnswer(a)
    \/ \E a \in ForecastAnswers : ForecastAnswer(a)
    \/ Return
    \/ EntryPage
    \/ \E f \in inflight, r \in PageOutcomes : CityResponse(f, r)

SpecEntry == InitEntry /\ [][NextEntry]_vars

\* ------------------------------------------------------------------------
\* Properties of filterGeocodingResults (checked under SpecFilter)
\* ------------------------------------------------------------------------

\* a candidate of Jordan: country 'jordan' or its Arabic name ignoring case, or code 'jo' / 'jor'
InJordan(r) ==
    \/ ToLowerCase(r.country) \in {StrJordan, StrJordanAr}
    \/ LowerOrEmpty(r.country_code) \in {StrJo, StrJor}

\* a capital-level candidate: national (PPLC) or administrative (PPLA) capital
CapitalLevel(r) == r.feature_code \in {<<"PPLC">>, <<"PPLA">>}

\* the population of a candidate, a missing one counting as zero
PopulationOf(r) == IF r.population = <<>> THEN 0 ELSE r.population[1]

\* the largest population of a non-empty batch
MaxPopulation(batch) ==
    CHOOSE m \in {PopulationOf(batch[i]) : i \in 1..Len(batch)} :
        \A i \in 1..Len(batch) : PopulationOf(batch[i]) <= m

\* the candidate's name contains one of the spelling variants used for guard detection
NameMatchesVariant(r) ==
    \E k \in 1..Len(ammanVariants) :
        Includes(ToLowerCase(r.name), ToLowerCase(ammanVariants[k]))

\* the raw input names the colliding country by its native-language phrase
NamesOmanNatively(input) ==
    Includes(input, StrSultanatOmanAr) \/ Includes(input, StrOmanDiacritic)

\* C1: when the Amman guard is active, the candidate the filter returns, if any,
\* is in Jordan, whatever the batch and the order of its candidates.
C1_GuardReturnsOnlyJordan ==
    (filterPc = "returned" /\ isAmmanCity(cityName) /\ filtered # <<>>)
        => InJordan(filtered[1])

\* C1 witness: the guard is active, the batch starts with a candidate of another
\* country, and the filter has returned a candidate.
C1_Witness ==
    /\ filterPc = "returned"
    /\ isAmmanCity(cityName)
    /\ Len(results) >= 2
    /\ ~InJordan(results[1])
    /\ filtered # <<>>

\* C2: an input naming the colliding country by its native-language phrase does
\* not activate the guard: isAmmanCity is false and the general rule is applied.
C2_OmanPhraseNotGuarded ==
    (filterPc = "returned" /\ NamesOmanNatively(cityName))
        => /\ ~isAmmanCity(cityName)
           /\ filtered = (IF results = <<>> THEN <<>> ELSE FilterGeneral(results))

\* C3: when the guard is active the filter returns a candidate exactly when the
\* batch holds a Jordan candidate whose name matches a guard-detection variant or
\* whose feature code is PPLC, and which is capital-level or above 50,000 people.
C3_GuardAcceptsIffQualified ==
    (filterPc = "returned" /\ isAmmanCity(cityName))
        => (filtered # <<>> <=>
              \E i \in 1..Len(results) :
                  /\ InJordan(results[i])
                  /\ (NameMatchesVariant(results[i]) \/ results[i].feature_code = <<"PPLC">>)
                  /\ (CapitalLevel(results[i]) \/ PopulationOf(results[i]) > 50000))

\* C4: under the general rule, a batch holding a capital-level candidate makes the
\* filter return a capital-level candidate.
C4_CapitalRanksFirst ==
    (/\ filterPc = "returned"
     /\ ~isAmmanCity(cityName)
     /\ \E i \in 1..Len(results) : CapitalLevel(results[i]))
        => (filtered # <<>> /\ CapitalLevel(filtered[1]))

\* C5: under the general rule, a non-empty batch without capital feature codes
\* yields a candidate of maximum population when that maximum exceeds 10,000, and
\* nothing when it is 10,000 or less.
C5_GeneralMaxPopulation ==
    (/\ filterPc = "returned"
     /\ ~isAmmanCity(cityName)
     /\ results # <<>>
     /\ \A i \in 1..Len(results) : ~CapitalLevel(results[i]))
        => IF MaxPopulation(results) > 10000
           THEN /\ filtered # <<>>
                /\ \E i \in 1..Len(results) : results[i] = filtered[1]
                /\ PopulationOf(filtered[1]) = MaxPopulation(results)
           ELSE filtered = <<>>

\* C5 witness: three candidates without capital codes in ascending population,
\* the last one returned.
C5_Witness ==
    /\ filterPc = "returned"
    /\ ~isAmmanCity(cityName)
    /\ Len(results) = 3
    /\ \A i \in 1..3 : ~CapitalLevel(results[i])
    /\ PopulationOf(results[1]) < PopulationOf(results[2])
    /\ PopulationOf(results[2]) < PopulationOf(results[3])
    /\ filtered = <<results[3]>>

\* ------------------------------------------------------------------------
\* Properties of geocodeCity and GET (checked under Spec)
\* ------------------------------------------------------------------------

\* the strategies geocodeCity reaches for a city when nothing is accepted, ascending
PlannedStrategies(city) ==
    SelectSeq(<<1, 2, 3, 4, 5, 6, 7, 8>>, LAMBDA k : StrategyApplies(k, GeocodeLocals(city)))

\* the planned candidate queries of a city, in the planned order
PlannedQueries(city) ==
    [i \in 1..Len(PlannedStrategies(city)) |-> StrategyQuery(PlannedStrategies(city)[i], GeocodeLocals(city))]

\* a city request whose geocodeCity call has ended without a location
CityRequestWithoutLocation ==
    /\ request.kind = "city"
    /\ pc = "responded"
    /\ calls # <<>>
    /\ geoResult = <<>>

\* C6: a resolution by geocodeCity yields at most one location, and a non-null
\* result is, unmodified, one of the records of the batch answered to the last
\* call issued; the location GET uses is read from that record
C6_ResultIsReturnedCandidate ==
    /\ Len(geoResult) <= 1
    /\ geoResult # <<>> =>
          /\ \E i \in 1..Len(lastResults) : lastResults[i] = geoResult[1]
          /\ Len(calls) = rejected + 1
          /\ located = <<[name |-> geoResult[1].name, country |-> geoResult[1].country,
                          latitude |-> geoResult[1].latitude,
                          longitude |-> geoResult[1].longitude]>>

\* C6 happens: after an earlier call was rejected, a batch of two records is
\* accepted and the record returned is its second entry
C6_Witness ==
    /\ geoResult # <<>>
    /\ rejected >= 1
    /\ Len(lastResults) = 2
    /\ geoResult[1] = lastResults[2]
    /\ geoResult[1] # lastResults[1]

\* C7: the candidate queries are tried one at a time: every call but the last
\* issued has been answered and not accepted (empty, failed or rejected by the
\* filter), while geocodeCity waits exactly one call is outstanding, and once a
\* batch is accepted no further call is issued
C7_StrictlySequential ==
    /\ Len(calls) <= rejected + 1
    /\ pc = "geocoding" => Len(calls) = rejected + 1 /\ geoResult = <<>>
    /\ geoResult # <<>> => Len(calls) = rejected + 1 /\ pc # "geocoding"
    /\ (geoResult # <<>> /\ rejected = 0) => Len(calls) = 1

\* C7 happens: the first candidate is accepted while later candidates were planned,
\* and exactly one call was issued
C7_Witness ==
    /\ geoResult # <<>>
    /\ rejected = 0
    /\ Len(calls) = 1
    /\ Len(plan) > 1
    /\ pc = "responded"

\* C8: when every answer was an empty batch, geocodeCity has returned null after
\* issuing exactly the planned candidate queries, each once, in the planned order
C8_AllEmptyExhaustsPlan ==
    (request.kind = "city" /\ pc = "responded" /\ calls # <<>> /\ allEmpty) =>
        /\ calls = PlannedQueries(request.city)
        /\ rejected = Len(calls)
        /\ geoResult = <<>>
        /\ ~geoThrew
        /\ response.status = 404

\* C8 happens: six planned queries were all answered with an empty batch
C8_Witness ==
    /\ request.kind = "city"
    /\ pc = "responded"
    /\ allEmpty
    /\ Len(calls) = 6
    /\ response.status = 404

\* C9: a failed geocode call (network error, non-OK status or a structurally
\* invalid payload) counts as an empty batch: no exception leaves geocodeCity,
\* and geocodeCity ends without a location only after its last planned call
C9_FailedCallTreatedAsEmpty ==
    sawFailure =>
        /\ ~geoThrew
        /\ CityRequestWithoutLocation => Len(calls) = Len(plan)

\* C10: a city request none of whose candidate queries yields an accepted location
\* is answered 404 'City not found', never 500, and no forecast call is issued
C10_NoLocationMeansNotFound ==
    CityRequestWithoutLocation =>
        /\ response.status = 404
        /\ response.error = "City not found"
        /\ forecastCalls = 0

\* ------------------------------------------------------------------------
\* Properties of normalizeCityName and of geocodeCity's ladder (checked under SpecText)
\* ------------------------------------------------------------------------

\* the functions have been applied to text
TextDone == textPc = "returned"

\* a tashkeel mark: U+064B to U+065F, or U+0670
Tashkeel(c) == c \in (1611..1631) \cup {1648}

\* C12: the (query, language) pairs geocodeCity issues for one input, even when
\* no batch is accepted and every strategy it reaches is tried, are pairwise different
C12_NoDuplicatePair ==
    TextDone =>
        \A i, j \in 1..Len(textOut[1].plan) :
            i # j => textOut[1].plan[i].call # textOut[1].plan[j].call

\* C12 happens: an input for which geocodeCity issues six pairs
C12_Witness ==
    /\ TextDone
    /\ Len(textOut[1].plan) = 6

\* C14: normalizeCityName is idempotent
C14_NormalizeIdempotent ==
    TextDone => textOut[1].renormalized = textOut[1].normalized

\* C14 happens: a text mixing Arabic and Latin letters, with a diacritic and
\* repeated white space, that normalization changes
C14_Witness ==
    /\ TextDone
    /\ \E i \in 1..Len(text) : Tashkeel(text[i])
    /\ \E i \in 1..Len(text) : text[i] \in 65..90
    /\ \E i \in 1..(Len(text) - 1) : IsSpace(text[i]) /\ IsSpace(text[i + 1])
    /\ textOut[1].normalized # text
    /\ textOut[1].normalized # <<>>

\* C15: the result of normalizeCityName contains no Arabic diacritic (tashkeel mark)
C15_NoDiacriticLeft ==
    TextDone => \A i \in 1..Len(textOut[1].normalized) : ~Tashkeel(textOut[1].normalized[i])

\* C15 happens: a text with a diacritic on an Arabic letter, and a non-empty result
C15_Witness ==
    /\ TextDone
    /\ \E i \in 2..Len(text) : Tashkeel(text[i]) /\ IsArabicChar(text[i - 1]) /\ ~Tashkeel(text[i - 1])
    /\ textOut[1].normalized # <<>>

\* C20: within one resolution the filter takes the same decision between the
\* Amman guard and the general rule for the batch of every candidate query
C20_SameGuardForAllBatches ==
    TextDone =>
        \A i, j \in 1..Len(textOut[1].plan) :
            textOut[1].plan[i].guarded = textOut[1].plan[j].guarded

\* ------------------------------------------------------------------------
\* C21, C22: the order of the queries (checked under SpecText)
\* ------------------------------------------------------------------------

\* the (query, language) pairs of the fetches geocodeCity(text) makes when no
\* batch is accepted, in order
IssuedQueries == [i \in 1..Len(textOut[1].plan) |-> textOut[1].plan[i].call]

\* the city-only string of the text: what precedes the first comma, trimmed, or
\* the whole trimmed text when that is empty
CityOnly == SearchCity(text)

\* the pair (q, language) if cond holds, nothing otherwise
QueryIf(cond, q, language) ==
    IF cond THEN <<[query |-> q, language |-> language]>> ELSE <<>>

\* the text, once trimmed, is not empty
TextGiven == Trim(text) # <<>>

\* C21: for a city-only string with an Arabic-block character the queries are, in
\* this order, (city-only, 'ar'), (normalized, 'ar') if normalization changed the
\* string, (city-only, 'en'), (normalized, 'en') if normalization changed the
\* string, and (cleaned, 'ar'), (cleaned, 'en') if stripping a filler word
\* changed the string; no other query and none of these skipped
C21_ArabicQueryOrder ==
    (TextDone /\ TextGiven /\ HasArabic(CityOnly)) =>
        LET normalized == normalizeCityName(CityOnly)
            cleaned == CleanedArabic(text)
        IN  IssuedQueries =
                QueryIf(TRUE, CityOnly, "ar")
                    \o QueryIf(normalized # CityOnly, normalized, "ar")
                    \o QueryIf(TRUE, CityOnly, "en")
                    \o QueryIf(normalized # CityOnly, normalized, "en")
                    \o QueryIf(cleaned # CityOnly, cleaned, "ar")
                    \o QueryIf(cleaned # CityOnly, cleaned, "en")

\* C21 witness: an Arabic text with a diacritic and a leading filler word: all
\* six queries are issued
C21_Witness ==
    /\ TextDone
    /\ HasArabic(CityOnly)
    /\ normalizeCityName(CityOnly) # CityOnly
    /\ CleanedArabic(text) # CityOnly
    /\ Len(IssuedQueries) = 6
    /\ IssuedQueries[2].language = "ar"
    /\ IssuedQueries[3].language = "en"

\* C22 as stated: for a city-only string without an Arabic-block character the
\* queries are (city-only, 'en') and then (normalized, 'en') if and only if
\* normalizeCityName changed the city-only string, and no other
C22_NormalizedIffChanged ==
    (TextDone /\ TextGiven /\ ~HasArabic(CityOnly)) =>
        LET normalized == normalizeCityName(CityOnly)
        IN  IssuedQueries =
                QueryIf(TRUE, CityOnly, "en")
                    \o QueryIf(normalized # CityOnly, normalized, "en")

\* C22 amended: the second query is issued if and only if the normalized string
\* differs from the city-only string and from its lower-cased form
C22_NormalizedIffMoreThanCase ==
    (TextDone /\ TextGiven /\ ~HasArabic(CityOnly)) =>
        LET normalized == normalizeCityName(CityOnly)
        IN  IssuedQueries =
                QueryIf(TRUE, CityOnly, "en")
                    \o QueryIf(normalized # CityOnly /\ normalized # ToLowerCase(CityOnly),
                               normalized, "en")

\* C22 witness: 'New  York', whose normalized form 'new york' is queried second
C22_Witness ==
    /\ TextDone
    /\ text = InNewYork
    /\ Len(IssuedQueries) = 2
    /\ IssuedQueries[2].query # ToLowerCase(CityOnly)

\* C23: geocodeCityName sends no (query, language) pair twice for one input,
\* every lookup being empty or failing
C23_ClientNoDuplicatePair ==
    TextDone =>
        \A i, j \in 1..Len(textOut[1].client) :
            i # j => textOut[1].client[i] # textOut[1].client[j]

\* ------------------------------------------------------------------------
\* C28: the cache and the requests that fail (checked under Spec)
\* ------------------------------------------------------------------------

\* a step that changes the cache either sends a 200 response or deletes nothing
\* but the expired entry stored under the key of the request it belongs to
CacheFrameStep ==
    cache' # cache =>
        \/ pc' = "responded" /\ response'.status = 200
        \/ /\ cache' \subseteq cache
           /\ Cardinality(cache \ cache') = 1
           /\ \A e \in cache \ cache' :
                  /\ e.key = getCacheKey(cacheKey')
                  /\ now' - e.timestamp > CACHE_TTL

\* C28: a GET request that ends with status 400, 404 or 500 adds no cache entry
\* and overwrites none; the only change it makes to the cache is the deletion of
\* the expired entry of its own key
C28_FailedRequestLeavesCache == [][CacheFrameStep]_vars

\* C28 witness: a request answered 404 or 500 has met the expired entry of its
\* key, and that entry is gone from the cache
C28_Witness ==
    /\ pc = "responded"
    /\ response.status \in {404, 500}
    /\ lookup.outcome = "expired"
    /\ \A e \in cache : e.key # getCacheKey(cacheKey)

\* ------------------------------------------------------------------------
\* C16, C17: the cache of GET
\* ------------------------------------------------------------------------

\* the running request looked its key up and the cache held an entry for it
EntryFound == lookup.outcome \in {"hit", "expired"}

\* the running request has issued a call to an external service
ExternalCallIssued == calls # <<>> \/ reverseCalls > 0 \/ forecastCalls > 0

\* C16: an entry is served only while its age is at most CACHE_TTL; an older
\* entry is not returned, it is deleted by the lookup (the key has no entry until
\* the request stores a fresh one) and the request goes on to its external calls
C16_NoStaleEntryServed ==
    /\ lookup.outcome = "hit" => lookup.age <= CACHE_TTL
    /\ (EntryFound /\ lookup.age > CACHE_TTL) =>
           /\ lookup.outcome = "expired"
           /\ ExternalCallIssued
           /\ pc \in {"geocoding", "reverse", "forecast"} =>
                  CacheGet(cache, getCacheKey(cacheKey)) = <<>>
           /\ pc = "responded" =>
                  \/ CacheGet(cache, getCacheKey(cacheKey)) = <<>>
                  \/ /\ CacheGet(cache, getCacheKey(cacheKey))[1].timestamp = now
                     /\ response = DataResponse(CacheGet(cache, getCacheKey(cacheKey))[1].data)

\* C16 witness: a request met an entry older than CACHE_TTL and is fetching afresh
C16_Witness ==
    /\ lookup.outcome = "expired"
    /\ lookup.age > CACHE_TTL
    /\ pc = "geocoding"

\* C17: a request whose key has an entry of age at most CACHE_TTL is answered 200
\* with the stored response and issues no external call
C17_FreshEntryServedWithoutCalls ==
    (EntryFound /\ lookup.age <= CACHE_TTL) =>
        /\ pc = "responded"
        /\ response = [status |-> 200, error |-> "", data |-> lookup.data]
        /\ ~ExternalCallIssued

\* C17 witness: an entry exactly CACHE_TTL old was served
C17_Witness ==
    /\ EntryFound
    /\ lookup.age = CACHE_TTL
    /\ pc = "responded"
    /\ response.status = 200

\* ------------------------------------------------------------------------
\* C18: reverse geocoding that fails
\* ------------------------------------------------------------------------

\* the reverse-geocoding fetch of the running request has failed: it threw, was
\* not OK or carried no address
ReverseFailed ==
    /\ request.kind = "coords"
    /\ reverseFetched # <<>>
    /\ (reverseFetched[1].kind # "ok" \/ reverseFetched[1].address = <<>>)

\* C18: after a failed reverse geocoding the request goes on with city 'Unknown'
\* and country 'Unknown' at the requested coordinates, fetches the forecast, and
\* answers 200 with that location when the forecast is valid
C18_ReverseFailureIsNotFatal ==
    ReverseFailed =>
        /\ located = <<[name |-> StrUnknown, country |-> StrUnknown,
                        latitude |-> request.lat, longitude |-> request.lon]>>
        /\ forecastCalls = 1
        /\ pc \in {"forecast", "responded"}
        /\ pc = "responded" <=> forecastFetched # <<>>
        /\ (forecastFetched # <<>> /\ forecastFetched[1].kind = "ok"
               /\ forecastFetched[1].complete) =>
              /\ response.status = 200
              /\ response.data = <<shapeWeatherResponse(StrUnknown, StrUnknown,
                                                        request.lat, request.lon)>>

\* C18 witness: reverse geocoding was not OK and the request was answered 200
C18_Witness ==
    /\ ReverseFailed
    /\ reverseFetched[1].kind = "not_ok"
    /\ pc = "responded"
    /\ response.status = 200
    /\ response.data[1].city = StrUnknown

\* ------------------------------------------------------------------------
\* C13: geocodeCity is deterministic
\* ------------------------------------------------------------------------

PageUntouched ==
    /\ pageState = "empty"
    /\ weatherData = <<>>
    /\ errorMessage = ""
    /\ recentSearches = <<>>
    /\ inflight = {}

\* geocodeCity given a blank text has returned null without a fetch, and the
\* page given a blank text has issued no fetch and changed nothing it shows
BlankIsSkipped ==
    Trim(runInput) = <<>> =>
        /\ runNo > 0 => /\ runPc = "done"
                        /\ runCalls = <<>>
                        /\ answered = {}
                        /\ runResult = [kind |-> "null", value |-> <<>>]
        /\ PageUntouched

\* a step in which GET takes up a request with a blank city answers 400, issues
\* no external call and leaves the cache as it was; a step in which
\* fetchWeatherByCity returns at once changes nothing of the page
BlankStep ==
    /\ (pc = "idle" /\ pc' # "idle" /\ request'.kind \in {"city", "empty"}
          /\ Trim(request'.city) = <<>>) =>
             /\ pc' = "responded"
             /\ response'.status = 400
             /\ cache' = cache
             /\ calls' = <<>> /\ reverseCalls' = 0 /\ forecastCalls' = 0
    /\ skipped' # skipped =>
             UNCHANGED <<pageState, weatherData, errorMessage, recentSearches, inflight,
                         lastFetchedCoords>>

\* C11: for an empty or whitespace-only city, geocodeCity returns without a
\* geocode call, GET answers 400 without an external call or a change of the
\* cache, and fetchWeatherByCity returns without a request or a change of state
C11_BlankCitySkipsResolution == []BlankIsSkipped /\ [][BlankStep]_vars

\* C11 witness: a whitespace-only text was given to geocodeCity, to
\* fetchWeatherByCity and, the cache holding an entry, to GET, which answered 400
C11_Witness ==
    /\ Trim(runInput) = <<>>
    /\ runInput # <<>>
    /\ runNo > 0
    /\ skipped = 1
    /\ cache # {}
    /\ pc = "responded"
    /\ request.city = runInput
    /\ response.status = 400

\* ------------------------------------------------------------------------
\* C19: the recent searches
\* ------------------------------------------------------------------------

\* no two entries of the list are equal ignoring letter case
NoCaseDuplicates(list) ==
    \A i, j \in 1..Len(list) : i # j => ToLowerCase(list[i]) # ToLowerCase(list[j])

\* the list is within its limit and free of duplicates
RecentListWellFormed ==
    /\ Len(recentSearches) <= 5
    /\ NoCaseDuplicates(recentSearches)

\* a step in which a search ends in success puts the entry of that search first;
\* the list changes in no other step but a clear, and what follows the first
\* entry was in the list before
RecentStep ==
    LET ended == inflight \ inflight'
        success == ended # {} /\ pageState' = "success"
    IN  /\ success =>
              /\ recentSearches' # <<>>
              /\ \A f \in ended : recentSearches'[1] = EntryOf(f, weatherData'[1])
        /\ recentSearches' # recentSearches =>
              \/ recentSearches' = <<>> /\ ended = {}
              \/ /\ success
                 /\ \A i \in 2..Len(recentSearches') :
                        \E j \in 1..Len(recentSearches) : recentSearches'[i] = recentSearches[j]

\* C19: from an empty list, after any city searches, location searches and
\* clears, the list has at most 5 entries, no two equal ignoring case; entries
\* are added by successful searches only and the latest of them is first
C19_RecentSearches == []RecentListWellFormed /\ [][RecentStep]_vars

\* C19 witness: the list is full, its first entry 'LIMA' is the search that just
\* succeeded, and the entry of a location search is in it
C19_Witness ==
    /\ Len(recentSearches) = 5
    /\ recentSearches[1] = Trim(TypedLimaUpper)
    /\ pageState = "success"
    /\ \E i \in 2..5 :
           recentSearches[i] = LocationEntry([city |-> NameAmman, country |-> CountryJordan])

\* ------------------------------------------------------------------------
\* C24 .. C27: the page with overlapping fetches (checked under SpecOverlap)
\* ------------------------------------------------------------------------

\* the fetch of fetchWeatherByLocation(p.lat, p.lon)
LocationFetch(p) == [kind |-> "location", city |-> <<>>, lat |-> p.lat, lon |-> p.lon]

\* in this step the browser answers a location request with a position
PositionReported == geoLoading /\ ~geoLoading' /\ position' # <<>>

\* a step in which the browser reports the coordinates it reported before, the
\* last-fetched coordinates having been reset by a failed location fetch and no
\* fetch for these coordinates being under way, starts a fetch for them
RetryStep ==
    (/\ PositionReported
     /\ position' = position
     /\ lastFetchedCoords = <<>>
     /\ LocationFetch(position[1]) \notin inflight)
        => LocationFetch(position[1]) \in inflight'

\* C24: after a failed location fetch the last-fetched coordinates are reset,
\* and when the location is requested again and the browser reports the same
\* coordinates, the page issues a new weather fetch for them
C24_RetryAfterFailedLocationFetch == [][RetryStep]_vars

\* after the step the page shows the outcome r of a fetch
ShowsOutcomeNext(r) ==
    IF Succeeds(r)
    THEN pageState' = "success" /\ weatherData' = r.data
    ELSE pageState' = "error" /\ weatherData' = <<>> /\ errorMessage' = ErrorMessageOf(r)

\* a step in which the answer of city search A arrives after the answer of city
\* search B, submitted after A and before A's answer, leaves the page showing
\* the outcome of B
LaterSearchWinsStep ==
    (/\ Len(burst) = 2
     /\ burst[1].fetch.kind = "city" /\ burst[2].fetch.kind = "city"
     /\ burst[1].answer = <<>> /\ burst[2].answer # <<>>
     /\ inflight = {burst[1].fetch}
     /\ inflight' = {})
        => ShowsOutcomeNext(burst[2].answer[1])

\* C25: city search A and then city search B being submitted before A's answer,
\* once both answers have arrived the page shows the outcome of B, in whichever
\* order they arrive
C25_LaterSearchWins == [][LaterSearchWinsStep]_vars

\* the page shows the weather of a city search: the entry of the last success
\* is the text of a search
ShowsCitySearch ==
    /\ pageState = "success"
    /\ recentSearches # <<>>
    /\ \E city \in OverlapCities : recentSearches[1] = Trim(city)

\* a step in which the browser reports a position leaves a fetch for it under
\* way, unless the page is not showing the weather of a city search
PositionIsFetchedStep ==
    PositionReported =>
        \/ LocationFetch(position'[1]) \in inflight'
        \/ ~ShowsCitySearch'

\* C26: whenever a location request succeeds with coordinates, the page comes
\* to show the weather or the error fetched for them, also when they were
\* fetched earlier and a city search was shown in between: it is not left
\* showing the city search with no fetch for the coordinates under way
C26_ReportedPositionIsFetched == [][PositionIsFetchedStep]_vars

\* C27: in every state of the page, state 'success' implies weatherData is
\* non-null, state 'error' implies weatherData is null and errorMessage is
\* non-empty, and state 'loading' implies a fetch is in flight
C27_StateMatchesData ==
    /\ pageState = "success" => weatherData # <<>>
    /\ pageState = "error" => weatherData = <<>> /\ errorMessage # ""
    /\ pageState = "loading" => inflight # {}

\* C27 witness: the answer of the search started first has put the page in
\* state 'error' while the fetch of the position reported later is in flight
C27_Witness ==
    /\ pageState = "error"
    /\ Len(burst) = 2
    /\ burst[1].fetch.kind = "city"
    /\ burst[1].answer # <<>>
    /\ burst[1].answer[1].kind = "not_ok_no_message"
    /\ burst[2].fetch.kind = "location"
    /\ burst[2].fetch \in inflight

\* ------------------------------------------------------------------------
\* C29: a search terminates (checked under SpecSearch)
\* ------------------------------------------------------------------------

\* geocodeCity has issued no more geocode calls than its input allows
CallsBounded ==
    Len(calls) <= IF HasArabic(SearchCity(request.city)) THEN 6 ELSE 2

\* C29: every network call settling, the page leaves state 'loading' for
\* 'success' or 'error', and geocodeCity returns, having made at most 6 geocode
\* calls for Arabic-script input and at most 2 otherwise
C29_SearchTerminates ==
    /\ (pageState = "loading") ~> (pageState \in {"success", "error"})
    /\ (pc = "geocoding") ~> (pc \in {"forecast", "responded"})
    /\ []CallsBounded

\* C29 witness: the page has left 'loading' for 'error' on the 404 that GET sent
\* after geocodeCity made six geocode calls for an Arabic text
C29_Witness ==
    /\ pageState = "error"
    /\ inflight = {}
    /\ pc = "responded"
    /\ response.status = 404
    /\ HasArabic(SearchCity(request.city))
    /\ Len(calls) = 6

\* ------------------------------------------------------------------------
\* C30: the summary line (checked under SpecSummary)
\* ------------------------------------------------------------------------

\* C30: the weather data having a daily entry, the summary line shows the high
\* of the first daily entry and the condition of its weather code, whatever
\* their values, 0 included
C30_SummaryShowsFirstDailyEntry ==
    (summaryOut # <<>> /\ summaryIn[1].data.daily # <<>>) =>
        LET first == summaryIn[1].data.daily[1]
        IN  /\ summaryOut[1].text.high = formatTemp(first.high, summaryIn[1].unit)
            /\ summaryOut[1].text.condition = ToLowerCase(getWeatherLabel(first.weatherCode))

====
